---- MODULE Spec2Model ----
(***************************************************************************)
(* A model of the VdbeSorter of src/src/vdbesort.c: the in-memory list,    *)
(* the level-0 PMAs written to the subtasks' temp files, the tree of       *)
(* MergeEngine / IncrMerger / PmaReader objects built at rewind, and the   *)
(* worker threads of the multi-threaded mode.                              *)
(*                                                                         *)
(* Heap objects (merge engines, incremental mergers, temp files, bulk      *)
(* arenas) live in maps indexed by small integers that play the role of    *)
(* pointers; 0 is the NULL pointer.  A C function that mutates the sorter  *)
(* is an operator from a bundle h of all the mutable state to the bundle   *)
(* after the call (plus the returned status code).                         *)
(***************************************************************************)
EXTENDS Integers, Sequences, FiniteSets, TLC

VARIABLES
  cfg,      \* what sqlite3VdbeSorterInit read from the host (page size, cache size, ...)
  input,    \* the records the VDBE is going to hand to Write(), in order
  sorter,   \* struct VdbeSorter (without aTask[])
  task,     \* VdbeSorter.aTask[]: one SortSubtask per index
  eng,      \* the MergeEngine objects, by address
  incr,     \* the IncrMerger objects, by address
  disk,     \* the contents of the open temp files, by file handle
  arena,    \* the live bulk-memory allocations (aMemory), by address -> size
  main,     \* the position of the calling (main) thread inside a sorter call
  csr,      \* the VdbeCursor: pSorter attached or not
  px,       \* the expression trees of the statement being compiled (expr.c)
  pma,      \* a temp file as bytes, with the PmaWriter and the PmaReader on it
  mem,      \* mem0 of malloc.c, the memory in use and the threads inside the allocator
  obs       \* what the caller has observed: status codes, eof flags, keys

vars == <<cfg, input, sorter, task, eng, incr, disk, arena, main, csr, obs, px, pma, mem>>

\* Bind([x \in {e} |-> body]) is body with x naming the value of e, which is
\* computed once (a C local variable assigned once).
Bind(f) == f[CHOOSE v \in DOMAIN f : TRUE]

----------------------------------------------------------------------------
(* Bounds of the model *)

MaxKey == 2          \* keys are 1..MaxKey
MaxLen == 3          \* longest exhaustively enumerated input
MaxResets == 1       \* Reset() calls per behaviour
MaxFaults == 1       \* injected I/O failures per behaviour

(* Program constants *)

SORTER_MIN_WORKING == 10
SORTER_MAX_MERGE_COUNT == 16
N_SORT_SLOT == 64
SZ_SORTER_RECORD == 16

----------------------------------------------------------------------------
(* Values *)

OK == "SQLITE_OK"
IOERR == "SQLITE_IOERR"
CANTOPEN == "SQLITE_CANTOPEN"
NOMEM == "SQLITE_NOMEM"

Max(a, b) == IF a >= b THEN a ELSE b
Min(a, b) == IF a <= b THEN a ELSE b
Abs(a) == IF a < 0 THEN -a ELSE a
ROUND8(x) == ((x + 7) \div 8) * 8

EmptyMap == [x \in {} |-> 0]
Drop(f, ks) == [x \in (DOMAIN f) \ ks |-> f[x]]
Put(f, k, v) == [x \in (DOMAIN f) \cup {k} |-> IF x = k THEN v ELSE f[x]]
NewId(f) == CHOOSE i \in 1..(Cardinality(DOMAIN f) + 1) : i \notin DOMAIN f

\* A record handed to the sorter: key is what the comparator looks at, tag
\* stands for the rest of the bytes, n is the length of the blob.
NoKey == [key |-> 0, tag |-> 0, n |-> 0]
IsNull(k) == k.n = 0

\* sqlite3VarintLen(): bytes of the varint encoding of v
sqlite3VarintLen(v) ==
  IF v < 128 THEN 1 ELSE IF v < 16384 THEN 2 ELSE IF v < 2097152 THEN 3 ELSE 4

\* The key comparator (sqlite3VdbeRecordCompare on the unpacked right-hand key)
sqlite3VdbeRecordCompare(k1, r2) ==
  IF k1.key < r2.key THEN -1 ELSE IF k1.key > r2.key THEN 1 ELSE 0

----------------------------------------------------------------------------
(* Temp files.  A file's content maps the offset at which an item starts   *)
(* to the item: a varint (t = "v") or a record blob (t = "b").             *)

VarintItem(v) == [t |-> "v", v |-> v, r |-> NoKey, len |-> sqlite3VarintLen(v)]
BlobItem(r) == [t |-> "b", v |-> 0, r |-> r, len |-> r.n]

Overlaps(o1, l1, o2, l2) == o1 < o2 + l2 /\ o2 < o1 + l1

WriteItem(c, off, it) ==
   Bind([keep \in {{p \in DOMAIN c : ~Overlaps(p, c[p].len, off, it.len)}} |->
     [p \in keep \cup {off} |-> IF p = off THEN it ELSE c[p]]])

\* The items of a sorted list as they are laid out in a PMA
RECURSIVE RecordItems(_)
RecordItems(l) ==
  IF l = <<>> THEN <<>>
  ELSE <<VarintItem(Head(l).n), BlobItem(Head(l))>> \o RecordItems(Tail(l))

RECURSIVE WriteItems(_, _, _)
WriteItems(c, off, its) ==
  IF its = <<>> THEN [c |-> c, off |-> off]
  ELSE WriteItems(WriteItem(c, off, Head(its)), off + Head(its).len, Tail(its))

----------------------------------------------------------------------------
(* vdbeSorterCompare: pUnpacked caches the unpacked right-hand key; a NULL *)
(* pKey2 means "the cache already holds key2".                             *)

Unalloc == [alloc |-> FALSE, r |-> NoKey]

\* pSorter->pUnpacked before sqlite3VdbeSorterCompare allocates it
NoUnpacked == [alloc |-> FALSE, nField |-> 0]

\* A faulty vdbeSorterCompare that swaps its operands; the ordering properties
\* are checked against it
vdbeSorterCompare_Swapped(unp, k1, k2) ==
   Bind([r2 \in {IF IsNull(k2) THEN unp.r ELSE k2} |->
     [res |-> sqlite3VdbeRecordCompare(r2, k1),
      unp |-> [alloc |-> TRUE, r |-> r2],
      bad |-> IsNull(r2) \/ ~unp.alloc]])

vdbeSorterCompare(unp, k1, k2) ==
   Bind([r2 \in {IF IsNull(k2) THEN unp.r ELSE k2} |->
     [res |-> sqlite3VdbeRecordCompare(k1, r2),
      unp |-> [alloc |-> TRUE, r |-> r2],
      bad |-> IsNull(r2) \/ ~unp.alloc]])

\* vdbeSorterMerge: merge two sorted lists, p1 first on ties
RECURSIVE MergeLoop(_, _, _, _, _, _)
MergeLoop(unp, p1, p2, pVal2, out, bad) ==
  IF p1 = <<>> \/ p2 = <<>>
  THEN [list |-> out \o (IF p1 # <<>> THEN p1 ELSE p2), unp |-> unp, bad |-> bad]
  ELSE Bind([c \in {vdbeSorterCompare(unp, Head(p1), pVal2)} |->
       IF c.res <= 0
       THEN MergeLoop(c.unp, Tail(p1), p2, NoKey, out \o <<Head(p1)>>, bad \/ c.bad)
       ELSE IF Tail(p2) = <<>>
            THEN MergeLoop(c.unp, p1, <<>>, NoKey, out \o <<Head(p2)>>, bad \/ c.bad)
            ELSE MergeLoop(c.unp, p1, Tail(p2), Head(Tail(p2)),
                           out \o <<Head(p2)>>, bad \/ c.bad)])

vdbeSorterMerge(unp, p1, p2) ==
  MergeLoop(unp, p1, p2, IF p2 # <<>> THEN Head(p2) ELSE NoKey, <<>>, FALSE)

\* vdbeSortAllocUnpacked
vdbeSortAllocUnpacked(unp) == IF unp.alloc THEN unp ELSE [alloc |-> TRUE, r |-> NoKey]

\* vdbeSorterSort: the 64-bin merge sort.  pList is walked from its head
\* (the most recently written record) to its tail.
RECURSIVE SortCarry(_, _, _)
SortCarry(st, p, i) ==
  \* for(i=0; aSlot[i]; i++){ merge(p, aSlot[i]) -> p; aSlot[i] = 0 }  aSlot[i] = p
  IF st.aSlot[i] = <<>>
  THEN [st EXCEPT !.aSlot[i] = p]
  ELSE Bind([m \in {vdbeSorterMerge(st.unp, p, st.aSlot[i])} |->
          SortCarry([aSlot |-> [st.aSlot EXCEPT ![i] = <<>>], unp |-> m.unp,
                     bad |-> st.bad \/ m.bad], m.list, i + 1)])

RECURSIVE SortWalk(_, _)
SortWalk(st, l) ==
  IF l = <<>> THEN st
  ELSE SortWalk(SortCarry(st, <<Head(l)>>, 0), Tail(l))

RECURSIVE SortCollect(_, _, _)
SortCollect(st, p, i) ==
  IF i = N_SORT_SLOT THEN [list |-> p, unp |-> st.unp, bad |-> st.bad]
  ELSE IF st.aSlot[i] = <<>> THEN SortCollect(st, p, i + 1)   \* merging with 0 is a no-op
  ELSE Bind([m \in {vdbeSorterMerge(st.unp, p, st.aSlot[i])} |->
          SortCollect([st EXCEPT !.unp = m.unp, !.bad = st.bad \/ m.bad], m.list, i + 1)])

vdbeSorterSort(unp, l) ==
   Bind([st0 \in {[aSlot |-> [i \in 0..(N_SORT_SLOT - 1) |-> <<>>],
              unp |-> vdbeSortAllocUnpacked(unp), bad |-> FALSE]} |->
     SortCollect(SortWalk(st0, l), <<>>, 0)])

----------------------------------------------------------------------------
(* The mutable state as one bundle:                                        *)
(*   s VdbeSorter, t aTask[], e MergeEngines, i IncrMergers, d temp files, *)
(*   a arenas, x the assert()s that failed, flt the I/O fault the host is  *)
(*   about to inject (or "none"), nf the faults injected so far, blk set   *)
(*   when the call reached sqlite3ThreadJoin() on a thread still running.  *)

NoThr == [kind |-> "none", arg |-> 0, ret |-> OK, off |-> 0, run |-> 0]
NoFile == [pFd |-> 0, iEof |-> 0]
NoList == [pList |-> <<>>, aMemory |-> 0, szPMA |-> 0]
TaskZero ==
  [pThread |-> 0, bDone |-> 0, pUnpacked |-> Unalloc, list |-> NoList,
   nPMA |-> 0, file |-> NoFile, file2 |-> NoFile, thr |-> NoThr]

Ret(h, rc) == [h |-> h, rc |-> rc]
Fail(h, what) == [h EXCEPT !.x = h.x \cup {what}]
FailIf(h, cond, what) == IF cond THEN Fail(h, what) ELSE h

\* The call waits in sqlite3ThreadJoin(): it resumes from h, g says on which
\* threads it has called sqlite3ThreadJoin()
Wait(h, g) == [h EXCEPT !.jn = g.jn]
Same(g, h) == [g EXCEPT !.jn = {}] = [h EXCEPT !.jn = {}]

\* vdbeSorterJoinThread; h.jn collects the subtasks on whose thread the call
\* of a sorter function, or the step of a worker, calls sqlite3ThreadJoin()
vdbeSorterJoinThread(h, ti) ==
  IF h.blk \/ h.t[ti].pThread = 0 THEN Ret(h, OK)
  ELSE IF h.t[ti].bDone = 0 THEN Ret([h EXCEPT !.blk = TRUE, !.jn = @ \cup {ti}], OK)
  ELSE Ret([h EXCEPT !.t[ti].pThread = 0, !.t[ti].bDone = 0, !.t[ti].thr = NoThr,
                     !.jn = @ \cup {ti}],
           h.t[ti].thr.ret)

\* vdbeSorterCreateThread
vdbeSorterCreateThread(h, ti, kind, arg) ==
   Bind([h1 \in {FailIf(h, h.t[ti].pThread # 0 \/ h.t[ti].bDone # 0,
                   "assert pThread==0 && bDone==0")} |->
     Ret([h1 EXCEPT !.t[ti].pThread = 1,
                    !.t[ti].thr = [kind |-> kind, arg |-> arg, ret |-> OK, off |-> 0, run |-> 0]],
         OK)])

\* vdbeSorterListToPMA: sort the list and append it as one PMA to the
\* subtask's file.  src says whose list: "sorter" (pSorter->list) or "task".
vdbeSorterListToPMA(h, ti, src) ==
   Bind([T \in {h.t[ti]} |->
      Bind([L \in {IF src = "sorter" THEN h.s.list ELSE T.list} |->
      Bind([iSz \in {L.szPMA + sqlite3VarintLen(L.szPMA) + T.file.iEof} |->
      Bind([h1 \in {FailIf(h, ~(L.szPMA > 0), "assert szPMA>0")} |->
      Bind([needOpen \in {T.file.pFd = 0} |->
      Bind([failOpen \in {needOpen /\ h.flt = "open"} |->
      Bind([h2 \in {IF needOpen
            THEN FailIf(FailIf(h1, T.file.iEof # 0, "assert file.iEof==0"),
                        T.nPMA # 0, "assert nPMA==0")
            ELSE h1} |->
     IF failOpen
     THEN Ret([h2 EXCEPT !.flt = "none", !.nf = h.nf + 1], CANTOPEN)
     ELSE
        Bind([fd \in {IF needOpen THEN NewId(h.d) ELSE T.file.pFd} |->
           Bind([d1 \in {IF needOpen THEN Put(h.d, fd, EmptyMap) ELSE h.d} |->
           Bind([srt \in {vdbeSorterSort(T.pUnpacked, L.pList)} |->
           Bind([wr \in {WriteItems(d1[fd], T.file.iEof,
                            <<VarintItem(L.szPMA)>> \o RecordItems(srt.list))} |->
           Bind([failWr \in {h.flt = "write"} |->
           \* when the first sqlite3OsWrite() fails nothing more is buffered
           Bind([pgEnd \in {(T.file.iEof \div h.s.pgsz + 1) * h.s.pgsz} |->
           Bind([iEof \in {IF failWr /\ wr.off >= pgEnd THEN pgEnd ELSE wr.off} |->
           Bind([h3 \in {[h2 EXCEPT !.d = IF failWr THEN d1 ELSE Put(d1, fd, wr.c),
                            !.t[ti].file = [pFd |-> fd, iEof |-> iEof],
                            !.t[ti].nPMA = T.nPMA + 1,
                            !.t[ti].pUnpacked = srt.unp,
                            !.flt = IF failWr THEN "none" ELSE h.flt,
                            !.nf = IF failWr THEN h.nf + 1 ELSE h.nf]} |->
           Bind([h4 \in {IF src = "sorter" THEN [h3 EXCEPT !.s.list.pList = <<>>]
                 ELSE [h3 EXCEPT !.t[ti].list.pList = <<>>]} |->
           Bind([h5 \in {FailIf(FailIf(h4, srt.bad, "stale pUnpacked"),
                        ~failWr /\ wr.off # iSz, "assert file.iEof==iSz")} |->
          Ret(h5, IF failWr THEN IOERR ELSE OK)])])])])])])])])])])])])])])])])])

\* A faulty subtask choice that takes the next subtask whether or not its
\* thread has been joined; the thread-count property is checked against it
FlushPick_NoJoin(h, seen, i) ==
   Bind([nWorker \in {h.s.nTask - 1} |->
  IF i >= nWorker THEN [h |-> h, rc |-> OK, i |-> i, ti |-> 0]
  ELSE [h |-> h, rc |-> OK, i |-> i, ti |-> (h.s.iPrev + i + 1) % nWorker]])

\* Variant of the loop that starts the round robin at iPrev, not at iPrev+1
RECURSIVE FlushPick_FromPrev(_, _, _)
FlushPick_FromPrev(h, seen, i) ==
   Bind([nWorker \in {h.s.nTask - 1} |->
  IF i >= nWorker THEN [h |-> h, rc |-> OK, i |-> i, ti |-> 0]
  ELSE Bind([iTest \in {(h.s.iPrev + i) % nWorker} |->
           Bind([j \in {IF h.t[iTest].bDone = 1 /\ iTest \in seen
                THEN vdbeSorterJoinThread(h, iTest) ELSE Ret(h, OK)} |->
          IF j.rc # OK \/ j.h.t[iTest].pThread = 0
          THEN [h |-> j.h, rc |-> j.rc, i |-> i, ti |-> iTest]
          ELSE FlushPick_FromPrev(j.h, seen, i + 1)])])])

\* The loop of vdbeSorterFlushPMA that picks a subtask.  seen is the set of
\* subtasks whose bDone==1 the main thread sees (bDone is read without a
\* memory barrier).
RECURSIVE FlushPick(_, _, _)
FlushPick(h, seen, i) ==
   Bind([nWorker \in {h.s.nTask - 1} |->
  IF i >= nWorker THEN [h |-> h, rc |-> OK, i |-> i, ti |-> 0]
  ELSE Bind([iTest \in {(h.s.iPrev + i + 1) % nWorker} |->
           Bind([j \in {IF h.t[iTest].bDone = 1 /\ iTest \in seen
                THEN vdbeSorterJoinThread(h, iTest) ELSE Ret(h, OK)} |->
          IF j.rc # OK \/ j.h.t[iTest].pThread = 0
          THEN [h |-> j.h, rc |-> j.rc, i |-> i, ti |-> iTest]
          ELSE FlushPick(j.h, seen, i + 1)])])])

\* The main thread uses list, file, file2 or nPMA of subtask ti: recorded as a
\* failure if a flush worker of that subtask has not been joined
Touch(h, ti) ==
  FailIf(h, h.t[ti].pThread # 0 /\ h.t[ti].thr.kind = "flush",
         "main thread uses a subtask whose flush worker is not joined")

\* A faulty vdbeSorterFlushPMA that copies pSorter->list to the subtask and
\* goes on using the same arena; the hand-off property is checked against it
vdbeSorterFlushPMA_KeepsArena(h, seen) ==
   Bind([nWorker \in {h.s.nTask - 1} |->
      Bind([lp \in {FlushPick([h EXCEPT !.s.bUsePMA = 1], seen, 0)} |->
     IF lp.rc # OK THEN Ret(lp.h, lp.rc)
     ELSE IF lp.i = nWorker
     THEN vdbeSorterListToPMA(Touch(lp.h, nWorker), nWorker, "sorter")
     ELSE
        Bind([g \in {Touch(lp.h, lp.ti)} |->
           Bind([g2 \in {[g EXCEPT !.s.iPrev = lp.ti,
                           !.t[lp.ti].list = g.s.list,
                           !.s.list = [pList |-> <<>>, aMemory |-> g.s.list.aMemory,
                                       szPMA |-> 0]]} |->
          vdbeSorterCreateThread(g2, lp.ti, "flush", 0)])])])])

\* vdbeSorterFlushPMA
vdbeSorterFlushPMA(h, seen) ==
   Bind([nWorker \in {h.s.nTask - 1} |->
      Bind([lp \in {FlushPick([h EXCEPT !.s.bUsePMA = 1], seen, 0)} |->
     IF lp.rc # OK THEN Ret(lp.h, lp.rc)
     ELSE IF lp.i = nWorker
     THEN vdbeSorterListToPMA(Touch(lp.h, nWorker), nWorker, "sorter")
     ELSE
        Bind([g \in {Touch(lp.h, lp.ti)} |->
           Bind([ti \in {lp.ti} |->
           Bind([aMem \in {g.t[ti].list.aMemory} |->
           Bind([g1 \in {FailIf(FailIf(g, g.t[ti].list.pList # <<>>, "assert pTask->list.pList==0"),
                        ~(aMem = 0 \/ g.s.list.aMemory # 0),
                        "assert pTask->list.aMemory==0 || pSorter->list.aMemory!=0")} |->
           Bind([fresh \in {NewId(g.a)} |->
           Bind([newMem \in {IF aMem # 0 THEN aMem
                     ELSE IF g.s.list.aMemory # 0 THEN fresh ELSE 0} |->
           Bind([g2 \in {[g1 EXCEPT !.s.iPrev = ti,
                            !.t[ti].list = g.s.list,
                            !.s.list = [pList |-> <<>>, aMemory |-> newMem, szPMA |-> 0],
                            !.s.nMemory = IF aMem # 0 THEN g.a[aMem] ELSE g.s.nMemory,
                            !.a = IF newMem = fresh /\ aMem = 0 /\ g.s.list.aMemory # 0
                                  THEN Put(g.a, fresh, g.s.nMemory) ELSE g.a]} |->
          \* sqlite3Malloc(pSorter->nMemory) returns 0
          IF aMem = 0 /\ g.s.list.aMemory # 0 /\ g.flt = "nomem"
          THEN Ret([g2 EXCEPT !.s.list.aMemory = 0, !.a = g.a,
                              !.flt = "none", !.nf = g.nf + 1], NOMEM)
          ELSE vdbeSorterCreateThread(g2, ti, "flush", 0)])])])])])])])])])

\* The size aMemory is grown to when nMin bytes are needed
RECURSIVE GrowTo(_, _)
GrowTo(nNew, nMin) == IF nNew < nMin THEN GrowTo(nNew * 2, nMin) ELSE nNew

\* A faulty sqlite3VdbeSorterWrite that does not link the new record to the
\* records already in the list; the permutation property is checked against it
sqlite3VdbeSorterWrite_Unlinked(h, rec, hnf, seen) ==
   Bind([s \in {h.s} |->
      Bind([nReq \in {rec.n + SZ_SORTER_RECORD} |->
      Bind([nPMA \in {rec.n + sqlite3VarintLen(rec.n)} |->
      Bind([bFlush \in {IF s.mxPmaSize = 0 THEN FALSE
                ELSE IF s.list.aMemory # 0
                     THEN s.iMemory # 0 /\ (s.iMemory + nReq) > s.mxPmaSize
                     ELSE \/ s.list.szPMA > s.mxPmaSize
                          \/ (s.list.szPMA > s.mnPmaSize /\ hnf)} |->
      Bind([f \in {IF bFlush
           THEN Bind([r \in {vdbeSorterFlushPMA(h, seen)} |->
                    Bind([r1 \in {[r.h EXCEPT !.s.list.szPMA = 0, !.s.iMemory = 0]} |->
                   Ret(FailIf(r1, r.rc = OK /\ r1.s.list.pList # <<>>,
                              "assert rc!=SQLITE_OK || pSorter->list.pList==0"), r.rc)])])
           ELSE Ret(h, OK)} |->
      Bind([g \in {f.h} |->
      Bind([g1 \in {[g EXCEPT !.s.list.szPMA = g.s.list.szPMA + nPMA,
                      !.s.mxKeysize = Max(g.s.mxKeysize, nPMA)]} |->
     IF g1.s.list.aMemory # 0
     THEN Bind([nMin \in {g1.s.iMemory + nReq} |->
              Bind([nNew0 \in {GrowTo(g1.s.nMemory * 2, nMin)} |->
              Bind([nNew1 \in {IF nNew0 > g1.s.mxPmaSize THEN g1.s.mxPmaSize ELSE nNew0} |->
              Bind([nNew \in {IF nNew1 < nMin THEN nMin ELSE nNew1} |->
              Bind([g2 \in {IF nMin > g1.s.nMemory
                    THEN [g1 EXCEPT !.s.nMemory = nNew,
                                    !.a = Put(g1.a, g1.s.list.aMemory, nNew)]
                    ELSE g1} |->
             Ret([g2 EXCEPT !.s.iMemory = g1.s.iMemory + ROUND8(nReq),
                            !.s.list.pList = <<rec>>], f.rc)])])])])])
     ELSE Ret([g1 EXCEPT !.s.list.pList = <<rec>>], f.rc)])])])])])])])

\* sqlite3VdbeSorterWrite with a limit of 0 bytes taken as a limit
sqlite3VdbeSorterWrite_ZeroIsLimit(h, rec, hnf, seen) ==
   Bind([s \in {h.s} |->
      Bind([nReq \in {rec.n + SZ_SORTER_RECORD} |->
      Bind([nPMA \in {rec.n + sqlite3VarintLen(rec.n)} |->
      Bind([bFlush \in {IF s.mxPmaSize = 0 THEN s.list.pList # <<>>
                ELSE IF s.list.aMemory # 0
                     THEN s.iMemory # 0 /\ (s.iMemory + nReq) > s.mxPmaSize
                     ELSE \/ s.list.szPMA > s.mxPmaSize
                          \/ (s.list.szPMA > s.mnPmaSize /\ hnf)} |->
      Bind([f \in {IF bFlush
           THEN Bind([r \in {vdbeSorterFlushPMA(h, seen)} |->
                    Bind([r1 \in {[r.h EXCEPT !.s.list.szPMA = 0, !.s.iMemory = 0]} |->
                   Ret(FailIf(r1, r.rc = OK /\ r1.s.list.pList # <<>>,
                              "assert rc!=SQLITE_OK || pSorter->list.pList==0"), r.rc)])])
           ELSE Ret(h, OK)} |->
      Bind([g \in {f.h} |->
      Bind([g1 \in {[g EXCEPT !.s.list.szPMA = g.s.list.szPMA + nPMA,
                      !.s.mxKeysize = Max(g.s.mxKeysize, nPMA)]} |->
     IF g1.s.list.aMemory # 0
     THEN Bind([nMin \in {g1.s.iMemory + nReq} |->
              Bind([nNew0 \in {GrowTo(g1.s.nMemory * 2, nMin)} |->
              Bind([nNew1 \in {IF nNew0 > g1.s.mxPmaSize THEN g1.s.mxPmaSize ELSE nNew0} |->
              Bind([nNew \in {IF nNew1 < nMin THEN nMin ELSE nNew1} |->
              Bind([g2 \in {IF nMin > g1.s.nMemory
                    THEN [g1 EXCEPT !.s.nMemory = nNew,
                                    !.a = Put(g1.a, g1.s.list.aMemory, nNew)]
                    ELSE g1} |->
             Ret([g2 EXCEPT !.s.iMemory = g1.s.iMemory + ROUND8(nReq),
                            !.s.list.pList = IF g1.s.iMemory = 0 THEN <<rec>>
                                             ELSE <<rec>> \o g1.s.list.pList], f.rc)])])])])])
     ELSE Ret([g1 EXCEPT !.s.list.pList = <<rec>> \o g1.s.list.pList], f.rc)])])])])])])])

\* sqlite3VdbeSorterWrite testing the list size with the new record added
sqlite3VdbeSorterWrite_SizeAfter(h, rec, hnf, seen) ==
   Bind([s \in {h.s} |->
      Bind([nReq \in {rec.n + SZ_SORTER_RECORD} |->
      Bind([nPMA \in {rec.n + sqlite3VarintLen(rec.n)} |->
      Bind([bFlush \in {IF s.mxPmaSize = 0 THEN FALSE
                ELSE IF s.list.aMemory # 0
                     THEN s.iMemory # 0 /\ (s.iMemory + nReq) > s.mxPmaSize
                     ELSE \/ s.list.szPMA + nPMA > s.mxPmaSize
                          \/ (s.list.szPMA > s.mnPmaSize /\ hnf)} |->
      Bind([f \in {IF bFlush
           THEN Bind([r \in {vdbeSorterFlushPMA(h, seen)} |->
                    Bind([r1 \in {[r.h EXCEPT !.s.list.szPMA = 0, !.s.iMemory = 0]} |->
                   Ret(FailIf(r1, r.rc = OK /\ r1.s.list.pList # <<>>,
                              "assert rc!=SQLITE_OK || pSorter->list.pList==0"), r.rc)])])
           ELSE Ret(h, OK)} |->
      Bind([g \in {f.h} |->
      Bind([g1 \in {[g EXCEPT !.s.list.szPMA = g.s.list.szPMA + nPMA,
                      !.s.mxKeysize = Max(g.s.mxKeysize, nPMA)]} |->
     IF g1.s.list.aMemory # 0
     THEN Bind([nMin \in {g1.s.iMemory + nReq} |->
              Bind([nNew0 \in {GrowTo(g1.s.nMemory * 2, nMin)} |->
              Bind([nNew1 \in {IF nNew0 > g1.s.mxPmaSize THEN g1.s.mxPmaSize ELSE nNew0} |->
              Bind([nNew \in {IF nNew1 < nMin THEN nMin ELSE nNew1} |->
              Bind([g2 \in {IF nMin > g1.s.nMemory
                    THEN [g1 EXCEPT !.s.nMemory = nNew,
                                    !.a = Put(g1.a, g1.s.list.aMemory, nNew)]
                    ELSE g1} |->
             Ret([g2 EXCEPT !.s.iMemory = g1.s.iMemory + ROUND8(nReq),
                            !.s.list.pList = IF g1.s.iMemory = 0 THEN <<rec>>
                                             ELSE <<rec>> \o g1.s.list.pList], f.rc)])])])])])
     ELSE Ret([g1 EXCEPT !.s.list.pList = <<rec>> \o g1.s.list.pList], f.rc)])])])])])])])

\* sqlite3VdbeSorterWrite
sqlite3VdbeSorterWrite(h, rec, hnf, seen) ==
   Bind([s \in {h.s} |->
      Bind([nReq \in {rec.n + SZ_SORTER_RECORD} |->
      Bind([nPMA \in {rec.n + sqlite3VarintLen(rec.n)} |->
      Bind([bFlush \in {IF s.mxPmaSize = 0 THEN FALSE
                ELSE IF s.list.aMemory # 0
                     THEN s.iMemory # 0 /\ (s.iMemory + nReq) > s.mxPmaSize
                     ELSE \/ s.list.szPMA > s.mxPmaSize
                          \/ (s.list.szPMA > s.mnPmaSize /\ hnf)} |->
      Bind([f \in {IF bFlush
           THEN Bind([r \in {vdbeSorterFlushPMA(h, seen)} |->
                    Bind([r1 \in {[r.h EXCEPT !.s.list.szPMA = 0, !.s.iMemory = 0]} |->
                   Ret(FailIf(r1, r.rc = OK /\ r1.s.list.pList # <<>>,
                              "assert rc!=SQLITE_OK || pSorter->list.pList==0"), r.rc)])])
           ELSE Ret(h, OK)} |->
      Bind([g \in {f.h} |->
      Bind([g1 \in {[g EXCEPT !.s.list.szPMA = g.s.list.szPMA + nPMA,
                      !.s.mxKeysize = Max(g.s.mxKeysize, nPMA)]} |->
     IF g1.s.list.aMemory # 0
     THEN Bind([nMin \in {g1.s.iMemory + nReq} |->
              Bind([nNew0 \in {GrowTo(g1.s.nMemory * 2, nMin)} |->
              Bind([nNew1 \in {IF nNew0 > g1.s.mxPmaSize THEN g1.s.mxPmaSize ELSE nNew0} |->
              Bind([nNew \in {IF nNew1 < nMin THEN nMin ELSE nNew1} |->
              Bind([g2 \in {IF nMin > g1.s.nMemory
                    THEN [g1 EXCEPT !.s.nMemory = nNew,
                                    !.a = Put(g1.a, g1.s.list.aMemory, nNew)]
                    ELSE g1} |->
             Ret([g2 EXCEPT !.s.iMemory = g1.s.iMemory + ROUND8(nReq),
                            !.s.list.pList = IF g1.s.iMemory = 0 THEN <<rec>>
                                             ELSE <<rec>> \o g1.s.list.pList], f.rc)])])])])])
     ELSE Ret([g1 EXCEPT !.s.list.pList = <<rec>> \o g1.s.list.pList], f.rc)])])])])])])])

----------------------------------------------------------------------------
(* PmaReader, MergeEngine, IncrMerger *)

ReaderZero ==
  [iReadOff |-> 0, iEof |-> 0, nKey |-> 0, pFile |-> 0, aKey |-> NoKey, pIncr |-> 0]

\* A PmaReader is either aIter[n] of merge engine e, or pSorter->pReader
IterRef(e, n) == [k |-> "e", e |-> e, n |-> n]
RootRef == [k |-> "r", e |-> 0, n |-> 0]
GetR(h, ref) == IF ref.k = "e" THEN h.e[ref.e].aIter[ref.n] ELSE h.s.rdr
SetR(h, ref, r) ==
  IF ref.k = "e" THEN [h EXCEPT !.e[ref.e].aIter[ref.n] = r] ELSE [h EXCEPT !.s.rdr = r]

XOR1(i) == IF i % 2 = 0 THEN i + 1 ELSE i - 1

\* What a read at offset off of file fd finds
\* A byte of a file below its size that was never written reads as zero,
\* which is the varint 0; past the end of the file the read is short.
FileSize(c) ==
  IF DOMAIN c = {} THEN 0
  ELSE Bind([ends \in {{q + c[q].len : q \in DOMAIN c}} |->
          CHOOSE m \in ends : \A e \in ends : m >= e])

ItemAt(h, fd, off) ==
  IF fd \in DOMAIN h.d /\ off \in DOMAIN h.d[fd] THEN h.d[fd][off]
  ELSE IF fd \in DOMAIN h.d /\ off < FileSize(h.d[fd])
          /\ \A q \in DOMAIN h.d[fd] : ~Overlaps(q, h.d[fd][q].len, off, 1)
  THEN VarintItem(0)
  ELSE [t |-> "garbage", v |-> 0, r |-> NoKey, len |-> 1]

\* vdbePmaReaderSeek
vdbePmaReaderSeek(h, ref, file, iOff) ==
   Bind([r \in {GetR(h, ref)} |->
      Bind([h1 \in {FailIf(h, r.pIncr # 0 /\ h.i[r.pIncr].bEof # 0,
                   "assert pIncr==0 || pIncr->bEof==0")} |->
     SetR(h1, ref, [r EXCEPT !.iReadOff = iOff, !.iEof = file.iEof, !.pFile = file.pFd])])])

\* The tail of vdbePmaReaderNext: read the varint and the blob of the next record
ReadRecord(h, ref) ==
   Bind([r \in {GetR(h, ref)} |->
      Bind([v \in {ItemAt(h, r.pFile, r.iReadOff)} |->
      Bind([b \in {ItemAt(h, r.pFile, r.iReadOff + v.len)} |->
      Bind([h1 \in {FailIf(h, v.t # "v" \/ b.t # "b" \/ b.len # v.v \/
                      r.iReadOff + v.len + v.v > r.iEof, "read of bytes never written")} |->
     IF v.t = "v" /\ v.v = 0
     THEN SetR(h, ref, [r EXCEPT !.nKey = 0, !.aKey = NoKey, !.iReadOff = r.iReadOff + v.len])
     ELSE SetR(h1, ref, [r EXCEPT !.nKey = v.v, !.aKey = b.r,
                                  !.iReadOff = r.iReadOff + v.len + v.v])])])])])

RECURSIVE vdbePmaReaderNext(_, _)
RECURSIVE vdbePmaReaderClear(_, _)
RECURSIVE vdbeIncrFree(_, _)
RECURSIVE vdbeMergeEngineFree(_, _)
RECURSIVE ClearIters(_, _, _)
RECURSIVE vdbeSorterNext(_, _, _)
RECURSIVE vdbeIncrSwap(_, _)
RECURSIVE PopulateLoop(_, _, _)

\* vdbeIncrFree
vdbeIncrFree(h, iid) ==
  IF iid = 0 THEN h
  ELSE Bind([I \in {h.i[iid]} |->
           Bind([h1 \in {IF I.bUseThread = 1
                 THEN Bind([j \in {vdbeSorterJoinThread(h, I.pTask).h} |->
                         [j EXCEPT !.d = Drop(j.d, {I.aFile[0].pFd, I.aFile[1].pFd})]])
                 ELSE h} |->
           Bind([h2 \in {vdbeMergeEngineFree(h1, I.pMerger)} |->
          [h2 EXCEPT !.i = Drop(h2.i, {iid})]])])])

\* vdbePmaReaderClear
vdbePmaReaderClear(h, ref) ==
  SetR(vdbeIncrFree(h, GetR(h, ref).pIncr), ref, ReaderZero)

ClearIters(h, eid, n) ==
  IF n = h.e[eid].nTree THEN h
  ELSE ClearIters(vdbePmaReaderClear(h, IterRef(eid, n)), eid, n + 1)

\* vdbeMergeEngineFree
vdbeMergeEngineFree(h, eid) ==
  IF eid = 0 THEN h
  ELSE Bind([h1 \in {ClearIters(h, eid, 0)} |-> [h1 EXCEPT !.e = Drop(h1.e, {eid})]])

\* vdbePmaReaderNext
vdbePmaReaderNext(h, ref) ==
   Bind([r \in {GetR(h, ref)} |->
  IF r.iReadOff >= r.iEof
  THEN IF r.pIncr # 0
       THEN Bind([sw \in {vdbeIncrSwap(h, r.pIncr)} |->
            IF sw.rc = OK /\ sw.h.i[r.pIncr].bEof = 0
            THEN Bind([I \in {sw.h.i[r.pIncr]} |->
                    Ret(ReadRecord(vdbePmaReaderSeek(sw.h, ref, I.aFile[0], I.iStartOff),
                                   ref), OK)])
            ELSE Ret(vdbePmaReaderClear(sw.h, ref), sw.rc)])
       ELSE Ret(vdbePmaReaderClear(h, ref), OK)
  ELSE Ret(ReadRecord(h, ref), OK)])

\* A faulty loop that takes iRes = +1 also when the second reader is the one
\* at EOF; the agreement with vdbeSorterDoCompare is checked against it
RECURSIVE TreeUp_EofSecond(_, _, _, _, _, _, _, _)
TreeUp_EofSecond(aIter, aTree, unp, i, p1, p2, pKey2, bad) ==
  IF i <= 0 THEN [aTree |-> aTree, unp |-> unp, bad |-> bad]
  ELSE Bind([c \in {IF aIter[p1].pFile = 0 THEN [res |-> 1, unp |-> unp, bad |-> FALSE]
                ELSE IF aIter[p2].pFile = 0 THEN [res |-> 1, unp |-> unp, bad |-> FALSE]
                ELSE vdbeSorterCompare(unp, aIter[p1].aKey, pKey2)} |->
          IF c.res < 0 \/ (c.res = 0 /\ p1 < p2)
          THEN Bind([q2 \in {aTree[XOR1(i)]} |->
                  TreeUp_EofSecond(aIter, [aTree EXCEPT ![i] = p1], c.unp, i \div 2,
                                     p1, q2, aIter[q2].aKey, bad \/ c.bad)])
          ELSE TreeUp_EofSecond(aIter, [aTree EXCEPT ![i] = p2], c.unp, i \div 2,
                                  aTree[XOR1(i)], p2,
                                  IF aIter[p1].pFile # 0 THEN NoKey ELSE pKey2, bad \/ c.bad)])

\* A faulty aTree[] update that gives a tie to pIter2 whatever the indexes;
\* the independence of the output from the PMA boundaries is checked against it
RECURSIVE TreeUp_TieToSecond(_, _, _, _, _, _, _, _)
TreeUp_TieToSecond(aIter, aTree, unp, i, p1, p2, pKey2, bad) ==
  IF i <= 0 THEN [aTree |-> aTree, unp |-> unp, bad |-> bad]
  ELSE Bind([c \in {IF aIter[p1].pFile = 0 THEN [res |-> 1, unp |-> unp, bad |-> FALSE]
                ELSE IF aIter[p2].pFile = 0 THEN [res |-> -1, unp |-> unp, bad |-> FALSE]
                ELSE vdbeSorterCompare(unp, aIter[p1].aKey, pKey2)} |->
          IF c.res < 0
          THEN Bind([q2 \in {aTree[XOR1(i)]} |->
                  TreeUp_TieToSecond(aIter, [aTree EXCEPT ![i] = p1], c.unp, i \div 2,
                                     p1, q2, aIter[q2].aKey, bad \/ c.bad)])
          ELSE TreeUp_TieToSecond(aIter, [aTree EXCEPT ![i] = p2], c.unp, i \div 2,
                                  aTree[XOR1(i)], p2,
                                  IF aIter[p1].pFile # 0 THEN NoKey ELSE pKey2, bad \/ c.bad)])

\* The loop of vdbeSorterNext that recomputes aTree[] from the leaf of the
\* reader just advanced up to the root.  p1, p2 are pIter1, pIter2 as
\* indexes of aIter[]; pKey2 is NoKey when the cache holds pIter2's key.
RECURSIVE TreeUp(_, _, _, _, _, _, _, _)
TreeUp(aIter, aTree, unp, i, p1, p2, pKey2, bad) ==
  IF i <= 0 THEN [aTree |-> aTree, unp |-> unp, bad |-> bad]
  ELSE Bind([c \in {IF aIter[p1].pFile = 0 THEN [res |-> 1, unp |-> unp, bad |-> FALSE]
                ELSE IF aIter[p2].pFile = 0 THEN [res |-> -1, unp |-> unp, bad |-> FALSE]
                ELSE vdbeSorterCompare(unp, aIter[p1].aKey, pKey2)} |->
          IF c.res < 0 \/ (c.res = 0 /\ p1 < p2)
          THEN Bind([q2 \in {aTree[XOR1(i)]} |->
                  TreeUp(aIter, [aTree EXCEPT ![i] = p1], c.unp, i \div 2,
                         p1, q2, aIter[q2].aKey, bad \/ c.bad)])
          ELSE TreeUp(aIter, [aTree EXCEPT ![i] = p2], c.unp, i \div 2,
                      aTree[XOR1(i)], p2,
                      IF aIter[p1].pFile # 0 THEN NoKey ELSE pKey2, bad \/ c.bad)])

\* vdbeSorterNext: advance the merge engine to its next key
vdbeSorterNext(h, ti, eid) ==
   Bind([iPrev \in {h.e[eid].aTree[1]} |->
      Bind([n \in {vdbePmaReaderNext(h, IterRef(eid, iPrev))} |->
     IF n.rc # OK THEN [h |-> n.h, rc |-> n.rc, eof |-> FALSE, set |-> FALSE]
     ELSE Bind([E \in {n.h.e[eid]} |->
              Bind([i1 \in {(iPrev \div 2) * 2} |->
              Bind([i2 \in {i1 + 1} |->
              Bind([up \in {TreeUp(E.aIter, E.aTree, n.h.t[ti].pUnpacked,
                           (E.nTree + iPrev) \div 2, i1, i2, E.aIter[i2].aKey, FALSE)} |->
              Bind([h1 \in {[n.h EXCEPT !.e[eid].aTree = up.aTree, !.t[ti].pUnpacked = up.unp]} |->
              Bind([h2 \in {FailIf(FailIf(h1, up.bad, "stale pUnpacked"),
                           ~n.h.t[ti].pUnpacked.alloc, "NULL pTask->pUnpacked")} |->
             [h |-> h2, rc |-> OK, eof |-> E.aIter[up.aTree[1]].pFile = 0, set |-> TRUE]])])])])])])])])

\* A faulty vdbeSorterDoCompare with "res<0" for "res<=0"; stability is
\* checked against it
vdbeSorterDoCompare_TieToSecond(h, ti, eid, iOut) ==
   Bind([E \in {h.e[eid]} |->
      Bind([i1 \in {IF iOut >= E.nTree \div 2 THEN (iOut - E.nTree \div 2) * 2 ELSE E.aTree[iOut * 2]} |->
      Bind([i2 \in {IF iOut >= E.nTree \div 2 THEN i1 + 1 ELSE E.aTree[iOut * 2 + 1]} |->
      Bind([p1 \in {E.aIter[i1]} |->
      Bind([p2 \in {E.aIter[i2]} |->
      Bind([c \in {vdbeSorterCompare(h.t[ti].pUnpacked, p1.aKey, p2.aKey)} |->
      Bind([both \in {p1.pFile # 0 /\ p2.pFile # 0} |->
      Bind([iRes \in {IF p1.pFile = 0 THEN i2
              ELSE IF p2.pFile = 0 THEN i1
              ELSE IF c.res < 0 THEN i1 ELSE i2} |->
     [h EXCEPT !.e[eid].aTree[iOut] = iRes,
               !.t[ti].pUnpacked = IF both THEN c.unp ELSE h.t[ti].pUnpacked]])])])])])])])])

\* A faulty vdbeSorterDoCompare that lets a reader at EOF win; the property of
\* aTree[1] is checked against it
vdbeSorterDoCompare_EofWins(h, ti, eid, iOut) ==
   Bind([E \in {h.e[eid]} |->
      Bind([i1 \in {IF iOut >= E.nTree \div 2 THEN (iOut - E.nTree \div 2) * 2 ELSE E.aTree[iOut * 2]} |->
      Bind([i2 \in {IF iOut >= E.nTree \div 2 THEN i1 + 1 ELSE E.aTree[iOut * 2 + 1]} |->
      Bind([p1 \in {E.aIter[i1]} |->
      Bind([p2 \in {E.aIter[i2]} |->
      Bind([c \in {vdbeSorterCompare(h.t[ti].pUnpacked, p1.aKey, p2.aKey)} |->
      Bind([both \in {p1.pFile # 0 /\ p2.pFile # 0} |->
      Bind([iRes \in {IF p1.pFile = 0 THEN i1
              ELSE IF p2.pFile = 0 THEN i2
              ELSE IF c.res <= 0 THEN i1 ELSE i2} |->
     [h EXCEPT !.e[eid].aTree[iOut] = iRes,
               !.t[ti].pUnpacked = IF both THEN c.unp ELSE h.t[ti].pUnpacked]])])])])])])])])

\* vdbeSorterDoCompare
vdbeSorterDoCompare(h, ti, eid, iOut) ==
   Bind([E \in {h.e[eid]} |->
      Bind([i1 \in {IF iOut >= E.nTree \div 2 THEN (iOut - E.nTree \div 2) * 2 ELSE E.aTree[iOut * 2]} |->
      Bind([i2 \in {IF iOut >= E.nTree \div 2 THEN i1 + 1 ELSE E.aTree[iOut * 2 + 1]} |->
      Bind([p1 \in {E.aIter[i1]} |->
      Bind([p2 \in {E.aIter[i2]} |->
      Bind([c \in {vdbeSorterCompare(h.t[ti].pUnpacked, p1.aKey, p2.aKey)} |->
      Bind([both \in {p1.pFile # 0 /\ p2.pFile # 0} |->
      Bind([iRes \in {IF p1.pFile = 0 THEN i2
              ELSE IF p2.pFile = 0 THEN i1
              ELSE IF c.res <= 0 THEN i1 ELSE i2} |->
      Bind([h1 \in {FailIf(h, ~(iOut < E.nTree /\ iOut > 0), "assert iOut<nTree && iOut>0")} |->
      Bind([h2 \in {FailIf(h1, both /\ ~h.t[ti].pUnpacked.alloc, "assert pTask->pUnpacked!=0")} |->
     [h2 EXCEPT !.e[eid].aTree[iOut] = iRes,
                !.t[ti].pUnpacked = IF both THEN c.unp ELSE h.t[ti].pUnpacked]])])])])])])])])])])

\* One iteration of the loop of vdbeIncrPopulate; off is the PmaWriter's
\* position (iWriteOff + iBufEnd).
PopulateStep(h, iid, off) ==
   Bind([I \in {h.i[iid]} |->
      Bind([E \in {h.e[I.pMerger]} |->
      Bind([R \in {E.aIter[E.aTree[1]]} |->
      Bind([fd \in {I.aFile[1].pFd} |->
     IF R.pFile = 0 \/
        (off + R.nKey + sqlite3VarintLen(R.nKey)) > (I.iStartOff + I.mxSz)
     THEN [h |-> h, rc |-> OK, off |-> off, brk |-> TRUE]
     ELSE Bind([wr \in {WriteItems(IF fd \in DOMAIN h.d THEN h.d[fd] ELSE EmptyMap, off,
                               <<VarintItem(R.nKey), BlobItem(R.aKey)>>)} |->
              Bind([h1 \in {FailIf(h, fd \notin DOMAIN h.d, "write to a closed file")} |->
              Bind([nx \in {vdbeSorterNext([h1 EXCEPT !.d = Put(h.d, fd, wr.c)], I.pTask, I.pMerger)} |->
             [h |-> nx.h, rc |-> nx.rc, off |-> wr.off, brk |-> nx.rc # OK]])])])])])])])

\* vdbePmaWriterFinish at the end of vdbeIncrPopulate: *piEof = end of data
PopulateFinish(h, iid, off) == [h EXCEPT !.i[iid].aFile[1].iEof = off]

PopulateLoop(h, iid, off) ==
   Bind([st \in {PopulateStep(h, iid, off)} |->
     IF st.brk THEN Ret(PopulateFinish(st.h, iid, st.off), st.rc)
     ELSE PopulateLoop(st.h, iid, st.off)])

\* vdbeIncrPopulate
vdbeIncrPopulate(h, iid) ==
  PopulateLoop(FailIf(h, h.i[iid].bEof # 0, "assert pIncr->bEof==0"), iid, h.i[iid].iStartOff)

\* vdbeIncrBgPopulate
vdbeIncrBgPopulate(h, iid) ==
  vdbeSorterCreateThread(FailIf(h, h.i[iid].bUseThread = 0, "assert pIncr->bUseThread"),
                         h.i[iid].pTask, "populate", iid)

\* A faulty vdbeIncrSwap whose swap leaves aFile[1] as it was, so that the next
\* populate thread writes the file the reader reads; the separation of the
\* reader and the populate thread is checked against it
vdbeIncrSwap_SameFile(h, iid) ==
  IF h.i[iid].bUseThread = 1
  THEN Bind([j \in {vdbeSorterJoinThread(h, h.i[iid].pTask)} |->
       IF j.rc # OK THEN j
       ELSE Bind([I \in {j.h.i[iid]} |->
                Bind([g \in {[j.h EXCEPT !.i[iid].aFile = [k \in {0, 1} |-> I.aFile[1]]]} |->
               IF g.i[iid].aFile[0].iEof = I.iStartOff
               THEN Ret([g EXCEPT !.i[iid].bEof = 1], OK)
               ELSE vdbeIncrBgPopulate(g, iid)])])])
  ELSE Bind([p \in {vdbeIncrPopulate(h, iid)} |->
           Bind([g \in {[p.h EXCEPT !.i[iid].aFile[0] = p.h.i[iid].aFile[1]]} |->
          Ret(IF g.i[iid].aFile[0].iEof = g.i[iid].iStartOff
              THEN [g EXCEPT !.i[iid].bEof = 1] ELSE g, p.rc)])])

\* vdbeIncrSwap
vdbeIncrSwap(h, iid) ==
  IF h.i[iid].bUseThread = 1
  THEN Bind([j \in {vdbeSorterJoinThread(h, h.i[iid].pTask)} |->
       IF j.rc # OK THEN j
       ELSE Bind([I \in {j.h.i[iid]} |->
                Bind([g \in {[j.h EXCEPT !.i[iid].aFile = [k \in {0, 1} |-> I.aFile[1 - k]]]} |->
               IF g.i[iid].aFile[0].iEof = I.iStartOff
               THEN Ret([g EXCEPT !.i[iid].bEof = 1], OK)
               ELSE vdbeIncrBgPopulate(g, iid)])])])
  ELSE Bind([p \in {vdbeIncrPopulate(h, iid)} |->
           Bind([g \in {[p.h EXCEPT !.i[iid].aFile[0] = p.h.i[iid].aFile[1]]} |->
          Ret(IF g.i[iid].aFile[0].iEof = g.i[iid].iStartOff
              THEN [g EXCEPT !.i[iid].bEof = 1] ELSE g, p.rc)])])

----------------------------------------------------------------------------
(* Building the merge tree *)

INCRINIT_NORMAL == "INCRINIT_NORMAL"
INCRINIT_TASK == "INCRINIT_TASK"
INCRINIT_ROOT == "INCRINIT_ROOT"

RECURSIVE Pow2AtLeast(_, _)
Pow2AtLeast(N, nIter) == IF N < nIter THEN Pow2AtLeast(N + N, nIter) ELSE N

\* vdbeMergeEngineNew
vdbeMergeEngineNew(h, nIter) ==
   Bind([N \in {Pow2AtLeast(2, nIter)} |->
      Bind([id \in {NewId(h.e)} |->
      Bind([h1 \in {FailIf(h, nIter > SORTER_MAX_MERGE_COUNT, "assert nIter<=SORTER_MAX_MERGE_COUNT")} |->
     [h |-> [h1 EXCEPT !.e = Put(h.e, id, [nTree |-> N,
                                            aTree |-> [k \in 0..(N - 1) |-> 0],
                                            aIter |-> [k \in 0..(N - 1) |-> ReaderZero]])],
      id |-> id]])])])

\* vdbeSorterOpenTempFile
vdbeSorterOpenTempFile(h) ==
   Bind([fd \in {NewId(h.d)} |-> [h |-> [h EXCEPT !.d = Put(h.d, fd, EmptyMap)], fd |-> fd]])

\* vdbePmaReaderInit
vdbePmaReaderInit(h, ti, file, iStart, ref) ==
   Bind([h1 \in {FailIf(h, ~(file.iEof > iStart), "assert pFile->iEof>iStart")} |->
      Bind([h2 \in {vdbePmaReaderSeek(h1, ref, file, iStart)} |->
      Bind([r \in {GetR(h2, ref)} |->
      Bind([v \in {ItemAt(h2, r.pFile, r.iReadOff)} |->
      Bind([h3 \in {FailIf(h2, v.t # "v", "read of bytes never written")} |->
      Bind([h4 \in {SetR(h3, ref, [r EXCEPT !.iReadOff = r.iReadOff + v.len,
                                    !.iEof = r.iReadOff + v.len + v.v])} |->
     vdbePmaReaderNext(h4, ref)])])])])])])

\* The loop of vdbeMergeEngineLevel0 over the PMAs
RECURSIVE Level0Loop(_, _, _, _, _, _)
Level0Loop(h, ti, eid, i, nPMA, iOff) ==
  IF i >= nPMA THEN [h |-> h, rc |-> OK, iOff |-> iOff]
  ELSE Bind([n \in {vdbePmaReaderInit(h, ti, h.t[ti].file, iOff, IterRef(eid, i))} |->
          IF n.rc # OK THEN [h |-> n.h, rc |-> n.rc, iOff |-> iOff]
          ELSE Level0Loop(n.h, ti, eid, i + 1, nPMA, n.h.e[eid].aIter[i].iEof)])

\* vdbeMergeEngineLevel0
vdbeMergeEngineLevel0(h, ti, nPMA, iOffset) ==
   Bind([new \in {vdbeMergeEngineNew(h, nPMA)} |->
      Bind([l \in {Level0Loop(new.h, ti, new.id, 0, nPMA, iOffset)} |->
     IF l.rc # OK
     THEN [h |-> vdbeMergeEngineFree(l.h, new.id), rc |-> l.rc, iOff |-> l.iOff, id |-> 0]
     ELSE [h |-> l.h, rc |-> OK, iOff |-> l.iOff, id |-> new.id]])])

\* vdbeSorterTreeDepth
RECURSIVE TreeDepthLoop(_, _, _)
TreeDepthLoop(nDiv, nPMA, nDepth) ==
  IF nDiv < nPMA THEN TreeDepthLoop(nDiv * SORTER_MAX_MERGE_COUNT, nPMA, nDepth + 1)
  ELSE nDepth
\* vdbeSorterTreeDepth with the loop condition nDiv <= nPMA
vdbeSorterTreeDepth_Inclusive(nPMA) == TreeDepthLoop(SORTER_MAX_MERGE_COUNT, nPMA + 1, 0)
vdbeSorterTreeDepth(nPMA) == TreeDepthLoop(SORTER_MAX_MERGE_COUNT, nPMA, 0)

\* A faulty vdbeIncrNew that sizes the region as half a PMA whatever the
\* largest record; the delivery of every record is checked against it
vdbeIncrNew_HalfPma(h, ti, eid) ==
   Bind([id \in {NewId(h.i)} |->
      Bind([mxSz \in {h.s.mxPmaSize \div 2} |->
     [h |-> [h EXCEPT !.i = Put(h.i, id, [pTask |-> ti, pMerger |-> eid, iStartOff |-> 0,
                                          mxSz |-> mxSz, bEof |-> 0, bUseThread |-> 0,
                                          aFile |-> [k \in {0, 1} |-> NoFile]]),
                      !.t[ti].file2.iEof = h.t[ti].file2.iEof + mxSz],
      id |-> id]])])

\* vdbeIncrNew
vdbeIncrNew(h, ti, eid) ==
   Bind([id \in {NewId(h.i)} |->
      Bind([mxSz \in {Max(h.s.mxKeysize + 9, h.s.mxPmaSize \div 2)} |->
     [h |-> [h EXCEPT !.i = Put(h.i, id, [pTask |-> ti, pMerger |-> eid, iStartOff |-> 0,
                                          mxSz |-> mxSz, bEof |-> 0, bUseThread |-> 0,
                                          aFile |-> [k \in {0, 1} |-> NoFile]]),
                      !.t[ti].file2.iEof = h.t[ti].file2.iEof + mxSz],
      id |-> id]])])

\* vdbeIncrSetThreads
vdbeIncrSetThreads(h, iid) ==
  [h EXCEPT !.i[iid].bUseThread = 1,
            !.t[h.i[iid].pTask].file2.iEof =
                h.t[h.i[iid].pTask].file2.iEof - h.i[iid].mxSz]

RECURSIVE PowMerge(_)
PowMerge(n) == IF n <= 0 THEN 1 ELSE SORTER_MAX_MERGE_COUNT * PowMerge(n - 1)

\* The second loop of vdbeSorterAddToTree: walk down from p, creating the
\* interior MergeEngine/IncrMerger pairs that do not exist yet
RECURSIVE AddDescend(_, _, _, _, _, _, _)
AddDescend(h, ti, nDepth, iSeq, p, i, nDiv) ==
  IF i >= nDepth THEN [h |-> h, p |-> p]
  ELSE Bind([iIter \in {(iSeq \div nDiv) % SORTER_MAX_MERGE_COUNT} |->
           Bind([h1 \in {IF h.e[p].aIter[iIter].pIncr = 0
                 THEN Bind([new \in {vdbeMergeEngineNew(h, SORTER_MAX_MERGE_COUNT)} |->
                          Bind([inc \in {vdbeIncrNew(new.h, ti, new.id)} |->
                         [inc.h EXCEPT !.e[p].aIter[iIter].pIncr = inc.id]])])
                 ELSE h} |->
          AddDescend(h1, ti, nDepth, iSeq, h1.i[h1.e[p].aIter[iIter].pIncr].pMerger,
                     i + 1, nDiv \div SORTER_MAX_MERGE_COUNT)])])

\* vdbeSorterAddToTree
vdbeSorterAddToTree(h, ti, nDepth, iSeq, pRoot, pLeaf) ==
   Bind([inc \in {vdbeIncrNew(h, ti, pLeaf)} |->
      Bind([dn \in {AddDescend(inc.h, ti, nDepth, iSeq, pRoot, 1, PowMerge(nDepth - 1))} |->
     Ret([dn.h EXCEPT !.e[dn.p].aIter[iSeq % SORTER_MAX_MERGE_COUNT].pIncr = inc.id], OK)])])

\* The loop of vdbeSorterMergeTreeBuild over groups of level-0 PMAs
RECURSIVE GroupLoop(_, _, _, _, _, _, _)
GroupLoop(h, ti, nDepth, pRoot, i, iSeq, iReadOff) ==
  IF i >= h.t[ti].nPMA THEN Ret(h, OK)
  ELSE Bind([nReader \in {Min(h.t[ti].nPMA - i, SORTER_MAX_MERGE_COUNT)} |->
           Bind([l0 \in {vdbeMergeEngineLevel0(h, ti, nReader, iReadOff)} |->
          IF l0.rc # OK THEN Ret(l0.h, l0.rc)
          ELSE GroupLoop(vdbeSorterAddToTree(l0.h, ti, nDepth, iSeq, pRoot, l0.id).h,
                         ti, nDepth, pRoot, i + SORTER_MAX_MERGE_COUNT, iSeq + 1, l0.iOff)])])

\* The body of the loop of vdbeSorterMergeTreeBuild for one subtask with PMAs
TaskTree(h0, ti) ==
   Bind([h \in {Touch(h0, ti)} |->
      Bind([nPMA \in {h.t[ti].nPMA} |->
  IF nPMA <= SORTER_MAX_MERGE_COUNT
  THEN Bind([l0 \in {vdbeMergeEngineLevel0(h, ti, nPMA, 0)} |->
          [h |-> l0.h, rc |-> l0.rc, pRoot |-> l0.id]])
  ELSE Bind([new \in {vdbeMergeEngineNew(h, SORTER_MAX_MERGE_COUNT)} |->
           Bind([g \in {GroupLoop(new.h, ti, vdbeSorterTreeDepth(nPMA), new.id, 0, 0, 0)} |->
          [h |-> g.h, rc |-> g.rc, pRoot |-> new.id]])])])])

RECURSIVE TreeBuildLoop(_, _, _)
TreeBuildLoop(h, pMain, iTask) ==
  IF iTask >= h.s.nTask THEN [h |-> h, rc |-> OK, pMain |-> pMain]
  ELSE IF h.t[iTask].nPMA = 0 THEN TreeBuildLoop(h, pMain, iTask + 1)
  ELSE Bind([tt \in {TaskTree(h, iTask)} |->
       IF tt.rc # OK
       THEN [h |-> vdbeMergeEngineFree(tt.h, tt.pRoot), rc |-> tt.rc, pMain |-> pMain]
       ELSE IF pMain = 0 THEN TreeBuildLoop(tt.h, tt.pRoot, iTask + 1)
       ELSE Bind([inc \in {vdbeIncrNew(tt.h, iTask, tt.pRoot)} |->
               TreeBuildLoop([inc.h EXCEPT !.e[pMain].aIter[iTask].pIncr = inc.id],
                             pMain, iTask + 1)])])

\* A faulty vdbeSorterMergeTreeBuild that leaves the PMAs of subtask 0 out
\* of the tree when there are several subtasks; the equivalence with the
\* single-threaded sorter is checked against it
vdbeSorterMergeTreeBuild_SkipFirst(h) ==
   Bind([h0 \in {FailIf(h, ~(h.s.bUseThreads = 1 \/ h.s.nTask = 1),
                   "assert bUseThreads || nTask==1")} |->
      Bind([new \in {IF h.s.nTask > 1 THEN vdbeMergeEngineNew(h0, h.s.nTask)
             ELSE [h |-> h0, id |-> 0]} |->
      Bind([b \in {TreeBuildLoop(new.h, new.id, IF h.s.nTask > 1 THEN 1 ELSE 0)} |->
     IF b.rc # OK
     THEN [h |-> vdbeMergeEngineFree(b.h, b.pMain), rc |-> b.rc, pMain |-> 0]
     ELSE b])])])

\* vdbeSorterMergeTreeBuild
vdbeSorterMergeTreeBuild(h) ==
   Bind([h0 \in {FailIf(h, ~(h.s.bUseThreads = 1 \/ h.s.nTask = 1),
                   "assert bUseThreads || nTask==1")} |->
      Bind([new \in {IF h.s.nTask > 1 THEN vdbeMergeEngineNew(h0, h.s.nTask)
             ELSE [h |-> h0, id |-> 0]} |->
      Bind([b \in {TreeBuildLoop(new.h, new.id, 0)} |->
     IF b.rc # OK
     THEN [h |-> vdbeMergeEngineFree(b.h, b.pMain), rc |-> b.rc, pMain |-> 0]
     ELSE b])])])

----------------------------------------------------------------------------
(* Initialising the merge tree *)

RECURSIVE vdbeIncrInitMerger(_, _, _, _)
RECURSIVE vdbePmaReaderIncrInit(_, _, _)
RECURSIVE InitIters(_, _, _)
RECURSIVE CompareAll(_, _, _, _)

\* for(i=pMerger->nTree-1; i>0; i--) vdbeSorterDoCompare(pTask, pMerger, i)
CompareAll(h, ti, eid, i) ==
  IF i <= 0 THEN h ELSE CompareAll(vdbeSorterDoCompare(h, ti, eid, i), ti, eid, i - 1)

\* The first loop of vdbeIncrInitMerger when eMode is not INCRINIT_ROOT
InitIters(h, eid, i) ==
  IF i >= h.e[eid].nTree THEN Ret(h, OK)
  ELSE Bind([n \in {vdbePmaReaderIncrInit(h, IterRef(eid, i), INCRINIT_NORMAL)} |->
          IF n.rc # OK THEN n ELSE InitIters(n.h, eid, i + 1)])

\* The tail of vdbeIncrInitMerger: the compare loop and the returned code
InitMergerTail(h, ti, eid) ==
   Bind([c \in {CompareAll(h, ti, eid, h.e[eid].nTree - 1)} |->
     Ret(FailIf(c, ~c.t[ti].pUnpacked.alloc, "NULL pTask->pUnpacked"), OK)])

\* vdbeIncrInitMerger, eMode INCRINIT_NORMAL or INCRINIT_TASK (with
\* INCRINIT_ROOT the first loop can wait for threads: see RootIters)
vdbeIncrInitMerger(h, ti, eid, eMode) ==
   Bind([n \in {InitIters(h, eid, 0)} |->
     IF n.rc # OK THEN n ELSE InitMergerTail(n.h, ti, eid)])

\* The part of vdbePmaReaderIncrInit that sets up the files of pIncr
IncrInitFiles(h, iid) ==
   Bind([I \in {h.i[iid]} |->
      Bind([ti \in {I.pTask} |->
     IF I.bUseThread = 1
     THEN Bind([f0 \in {vdbeSorterOpenTempFile(h)} |->
              Bind([f1 \in {vdbeSorterOpenTempFile(f0.h)} |->
             [f1.h EXCEPT !.i[iid].aFile[0].pFd = f0.fd, !.i[iid].aFile[1].pFd = f1.fd]])])
     ELSE Bind([h1 \in {IF h.t[ti].file2.pFd = 0
                    THEN Bind([f \in {vdbeSorterOpenTempFile(
                                    FailIf(h, ~(h.t[ti].file2.iEof > 0),
                                           "assert pTask->file2.iEof>0"))} |->
                            [f.h EXCEPT !.t[ti].file2 = [pFd |-> f.fd, iEof |-> 0]]])
                    ELSE h} |->
             [h1 EXCEPT !.i[iid].aFile[1].pFd = h1.t[ti].file2.pFd,
                        !.i[iid].iStartOff = h1.t[ti].file2.iEof,
                        !.t[ti].file2.iEof = h1.t[ti].file2.iEof + I.mxSz]])])])

\* A faulty vdbePmaReaderIncrInit that calls vdbePmaReaderNext() with
\* INCRINIT_TASK too, in the thread that vdbePmaReaderNext() joins; the
\* termination of the calls is checked against it
vdbePmaReaderIncrInit_NextInTask(h, ref, eMode) ==
   Bind([iid \in {GetR(h, ref).pIncr} |->
  IF iid = 0 THEN Ret(h, OK)
  ELSE Bind([m \in {vdbeIncrInitMerger(h, h.i[iid].pTask, h.i[iid].pMerger, eMode)} |->
       IF m.rc # OK THEN m
       ELSE Bind([f \in {IncrInitFiles(m.h, iid)} |->
                Bind([p \in {IF f.i[iid].bUseThread = 1
                     THEN vdbeIncrPopulate(
                            FailIf(f, eMode # INCRINIT_ROOT /\ eMode # INCRINIT_TASK,
                                   "assert eMode==INCRINIT_ROOT || eMode==INCRINIT_TASK"), iid)
                     ELSE Ret(f, OK)} |->
               IF p.rc = OK THEN vdbePmaReaderNext(p.h, ref)
               ELSE p])])])])

\* vdbePmaReaderIncrInit, eMode INCRINIT_NORMAL or INCRINIT_TASK
vdbePmaReaderIncrInit(h, ref, eMode) ==
   Bind([iid \in {GetR(h, ref).pIncr} |->
  IF iid = 0 THEN Ret(h, OK)
  ELSE Bind([m \in {vdbeIncrInitMerger(h, h.i[iid].pTask, h.i[iid].pMerger, eMode)} |->
       IF m.rc # OK THEN m
       ELSE Bind([f \in {IncrInitFiles(m.h, iid)} |->
                Bind([p \in {IF f.i[iid].bUseThread = 1
                     THEN vdbeIncrPopulate(
                            FailIf(f, eMode # INCRINIT_ROOT /\ eMode # INCRINIT_TASK,
                                   "assert eMode==INCRINIT_ROOT || eMode==INCRINIT_TASK"), iid)
                     ELSE Ret(f, OK)} |->
               IF p.rc = OK /\ eMode # INCRINIT_TASK THEN vdbePmaReaderNext(p.h, ref)
               ELSE p])])])])

\* vdbePmaReaderBgInit: the body of the thread started by vdbePmaReaderBgIncrInit
vdbePmaReaderBgInit(h, ti, ref) ==
   Bind([r \in {vdbePmaReaderIncrInit(h, ref, INCRINIT_TASK)} |->
     [r.h EXCEPT !.t[ti].bDone = 1, !.t[ti].thr.ret = r.rc]])

\* vdbePmaReaderBgIncrInit
vdbePmaReaderBgIncrInit(h, ref) ==
  vdbeSorterCreateThread(h, h.i[GetR(h, ref).pIncr].pTask, "bginit", ref.n)

\* The loops of vdbeSorterSetupMerge over pMain->aIter[] (multi-threaded)
RECURSIVE SetThreadsLoop(_, _, _)
SetThreadsLoop(h, pMain, iTask) ==
  IF iTask >= h.s.nTask - 1 THEN h
  ELSE Bind([iid \in {h.e[pMain].aIter[iTask].pIncr} |->
           Bind([h1 \in {IF iid # 0
                 THEN FailIf(vdbeIncrSetThreads(h, iid), h.i[iid].pTask = h.s.nTask - 1,
                             "assert pIncr->pTask!=pLast")
                 ELSE h} |->
          SetThreadsLoop(h1, pMain, iTask + 1)])])

RECURSIVE StartLoop(_, _, _)
StartLoop(h, pMain, iTask) ==
  IF iTask >= h.s.nTask THEN Ret(h, OK)
  ELSE Bind([iid \in {h.e[pMain].aIter[iTask].pIncr} |->
           Bind([h1 \in {FailIf(h, iid # 0 /\ h.i[iid].pTask # iTask,
                        "assert p->pIncr==0 || p->pIncr->pTask==&aTask[iTask]")} |->
           Bind([r \in {IF iid = 0 THEN Ret(h1, OK)
                ELSE IF iTask = h.s.nTask - 1
                THEN vdbePmaReaderIncrInit(h1, IterRef(pMain, iTask), INCRINIT_TASK)
                ELSE vdbePmaReaderBgIncrInit(h1, IterRef(pMain, iTask))} |->
          IF r.rc # OK THEN r ELSE StartLoop(r.h, pMain, iTask + 1)])])])

\* vdbeSorterSetupMerge up to the call vdbePmaReaderIncrInit(pIter, INCRINIT_ROOT)
\* (multi-threaded), or all of it (single-threaded)
vdbeSorterSetupMerge(h) ==
   Bind([b \in {vdbeSorterMergeTreeBuild(h)} |->
  IF b.rc # OK THEN Ret(b.h, b.rc)
  ELSE Bind([g \in {FailIf(b.h, ~(h.s.bUseThreads = 0 \/ h.s.nTask > 1),
                       "assert bUseThreads==0 || nTask>1")} |->
       IF g.s.bUseThreads = 1
       THEN Bind([pLast \in {g.s.nTask - 1} |->
                Bind([g1 \in {[g EXCEPT !.t[pLast].pUnpacked = vdbeSortAllocUnpacked(@),
                                !.s.pReader = 1, !.s.rdr = ReaderZero]} |->
                Bind([inc \in {vdbeIncrNew(g1, pLast, b.pMain)} |->
                Bind([g2 \in {[inc.h EXCEPT !.s.rdr.pIncr = inc.id]} |->
                Bind([g3 \in {SetThreadsLoop(vdbeIncrSetThreads(g2, inc.id), b.pMain, 0)} |->
               StartLoop(g3, b.pMain, 0)])])])])])
       ELSE Bind([m \in {vdbeIncrInitMerger(g, 0, b.pMain, INCRINIT_NORMAL)} |->
               Ret([m.h EXCEPT !.s.pMerger = b.pMain], m.rc)])])])

\* vdbeSorterRowkey: the key the sorter currently exposes
vdbeSorterRowkey(s, e) ==
  IF s.bUsePMA = 1
  THEN IF s.bUseThreads = 1 THEN s.rdr.aKey
       ELSE e[s.pMerger].aIter[e[s.pMerger].aTree[1]].aKey
  ELSE Head(s.list.pList)

\* Keys of several fields.  A key is the number whose digits to the base
\* KeyBase are its fields, the first field leading; the digit 0 is a NULL
\* (serial type 0), which sorts before every value
KeyBase == MaxKey + 1
MEM_Null == 1
MEM_Int == 4
Mem(d) == IF d = 0 THEN [flags |-> MEM_Null, i |-> 0] ELSE [flags |-> MEM_Int, i |-> d]
Fields(key, nField) ==
  [i \in 1..nField |-> Mem((key \div (KeyBase ^ (nField - i))) % KeyBase)]
FirstFields(key, nField, n) == key \div (KeyBase ^ (nField - n))

RECURSIVE Pack(_)
Pack(aMem) ==
  IF aMem = <<>> THEN 0
  ELSE Pack(SubSeq(aMem, 1, Len(aMem) - 1)) * KeyBase
         + (IF aMem[Len(aMem)].flags = MEM_Null THEN 0 ELSE aMem[Len(aMem)].i)

\* sqlite3VdbeRecordUnpack: the first r2->nField fields of the key
sqlite3VdbeRecordUnpack(pKeyInfo, pKey, r2) ==
  SubSeq(Fields(pKey.key, pKeyInfo.nField), 1, r2.nField)

\* A faulty sqlite3VdbeSorterCompare that looks for a NULL in the first field
\* only
sqlite3VdbeSorterCompare_FirstField(h, pKeyInfo, pVal, nIgnore) ==
   Bind([r2 \in {IF ~h.s.pUnpacked.alloc
                 THEN [alloc |-> TRUE, nField |-> pKeyInfo.nField - nIgnore]
                 ELSE h.s.pUnpacked} |->
      Bind([h1 \in {FailIf([h EXCEPT !.s.pUnpacked = r2],
                           ~(r2.nField >= pKeyInfo.nField - nIgnore),
                           "assert r2->nField>=pKeyInfo->nField-nIgnore")} |->
      Bind([pKey \in {vdbeSorterRowkey(h1.s, h1.e)} |->
      Bind([aMem \in {sqlite3VdbeRecordUnpack(pKeyInfo, pKey, r2)} |->
     IF \E i \in 0..(r2.nField - 1) : i = 0 /\ aMem[i + 1].flags = MEM_Null
     THEN [h |-> h1, rc |-> OK, res |-> -1]
     ELSE [h |-> h1, rc |-> OK,
           res |-> sqlite3VdbeRecordCompare(
                      [pVal EXCEPT !.key = FirstFields(pVal.key, pKeyInfo.nField, r2.nField)],
                      [pKey EXCEPT !.key = Pack(aMem)])]])])])])

\* sqlite3VdbeSorterCompare
sqlite3VdbeSorterCompare(h, pKeyInfo, pVal, nIgnore) ==
   Bind([r2 \in {IF ~h.s.pUnpacked.alloc
                 THEN [alloc |-> TRUE, nField |-> pKeyInfo.nField - nIgnore]
                 ELSE h.s.pUnpacked} |->
      Bind([h1 \in {FailIf([h EXCEPT !.s.pUnpacked = r2],
                           ~(r2.nField >= pKeyInfo.nField - nIgnore),
                           "assert r2->nField>=pKeyInfo->nField-nIgnore")} |->
      Bind([pKey \in {vdbeSorterRowkey(h1.s, h1.e)} |->
      Bind([aMem \in {sqlite3VdbeRecordUnpack(pKeyInfo, pKey, r2)} |->
     IF \E i \in 0..(r2.nField - 1) : aMem[i + 1].flags = MEM_Null
     THEN [h |-> h1, rc |-> OK, res |-> -1]
     ELSE [h |-> h1, rc |-> OK,
           res |-> sqlite3VdbeRecordCompare(
                      [pVal EXCEPT !.key = FirstFields(pVal.key, pKeyInfo.nField, r2.nField)],
                      [pKey EXCEPT !.key = Pack(aMem)])]])])])])

\* vdbeSortSubtaskCleanup
vdbeSortSubtaskCleanup(h, ti) ==
   Bind([T \in {h.t[ti]} |->
     [Touch(h, ti) EXCEPT !.t[ti].pUnpacked = Unalloc,
               !.t[ti].list.aMemory = 0,
               !.t[ti].list.pList = <<>>,
               !.t[ti].file = IF T.file.pFd # 0 THEN NoFile ELSE T.file,
               !.t[ti].file2 = IF T.file2.pFd # 0 THEN NoFile ELSE T.file2,
               !.a = Drop(h.a, {T.list.aMemory}),
               !.d = Drop(h.d, {T.file.pFd, T.file2.pFd})]])

RECURSIVE CleanupLoop(_, _)
CleanupLoop(h, i) ==
  IF i >= h.s.nTask THEN h ELSE CleanupLoop(vdbeSortSubtaskCleanup(h, i), i + 1)

\* sqlite3VdbeSorterReset after its call of vdbeSorterJoinAll
ResetTail(h) ==
   Bind([h0 \in {FailIf(h, ~(h.s.bUseThreads = 1 \/ h.s.pReader = 0),
                   "assert bUseThreads || pReader==0")} |->
      Bind([h1 \in {IF h.s.pReader # 0
            THEN [vdbePmaReaderClear(h0, RootRef) EXCEPT !.s.pReader = 0]
            ELSE h0} |->
      Bind([h2 \in {[vdbeMergeEngineFree(h1, h1.s.pMerger) EXCEPT !.s.pMerger = 0]} |->
      Bind([h3 \in {CleanupLoop(h2, 0)} |->
     [h3 EXCEPT !.s.list.pList = <<>>, !.s.list.szPMA = 0, !.s.bUsePMA = 0,
                !.s.iMemory = 0, !.s.mxKeysize = 0, !.s.pUnpacked = NoUnpacked]])])])])

\* sqlite3VdbeSorterClose after the Reset: free the arena and the sorter
CloseTail(h) ==
  [h EXCEPT !.a = Drop(h.a, {h.s.list.aMemory}), !.s.list.aMemory = 0]

----------------------------------------------------------------------------
(* The calling thread.  A sorter call runs until it returns or until it    *)
(* reaches sqlite3ThreadJoin() on a thread that has not finished; pc says  *)
(* where it waits.                                                         *)

Finish(h, rc, eof) == [h EXCEPT !.pc = "idle", !.rc = rc, !.eof = eof]

\* A faulty vdbeSorterJoinAll that joins the thread of the last subtask only;
\* the release of all resources by Reset and Close is checked against it
vdbeSorterJoinAll_LastOnly(h) ==
  IF h.j < 0 THEN h
  ELSE Bind([r \in {vdbeSorterJoinThread(h, h.j)} |->
          IF r.h.blk THEN Wait(h, r.h)
          ELSE [r.h EXCEPT !.j = -1, !.rc = IF h.rc = OK THEN r.rc ELSE h.rc]])

\* A faulty vdbeSorterJoinAll that joins the threads from subtask 0 upwards;
\* the exclusive use of each thread handle is checked against it
RECURSIVE vdbeSorterJoinAll_Upwards(_)
vdbeSorterJoinAll_Upwards(h) ==
  IF h.j < 0 THEN h
  ELSE Bind([r \in {vdbeSorterJoinThread(h, h.s.nTask - 1 - h.j)} |->
          IF r.h.blk THEN Wait(h, r.h)
          ELSE vdbeSorterJoinAll_Upwards([r.h EXCEPT !.j = h.j - 1,
                                             !.rc = IF h.rc = OK THEN r.rc ELSE h.rc])])

\* vdbeSorterJoinAll from index h.j downwards
RECURSIVE vdbeSorterJoinAll(_)
vdbeSorterJoinAll(h) ==
  IF h.j < 0 THEN h
  ELSE Bind([r \in {vdbeSorterJoinThread(h, h.j)} |->
          IF r.h.blk THEN Wait(h, r.h)
          ELSE vdbeSorterJoinAll([r.h EXCEPT !.j = h.j - 1,
                                             !.rc = IF h.rc = OK THEN r.rc ELSE h.rc])])

\* What follows vdbeSorterJoinAll in Rewind, Reset and Close
AfterJoin(h) ==
  IF h.op = "Rewind"
  THEN Bind([h1 \in {FailIf(h, h.s.pReader # 0, "assert pSorter->pReader==0")} |->
       IF h.rc # OK THEN Finish(h1, h.rc, FALSE)
       ELSE Bind([r \in {vdbeSorterSetupMerge(h1)} |->
            IF r.rc = OK /\ r.h.s.bUseThreads = 1
            THEN [r.h EXCEPT !.pc = "root", !.k = 0]
            ELSE Finish(r.h, r.rc, FALSE)])])
  ELSE Bind([r \in {ResetTail(h)} |->
          IF r.blk THEN Wait(h, r)
          ELSE Finish(IF h.op = "Close" THEN CloseTail(r) ELSE r, OK, FALSE)])

\* vdbeIncrInitMerger(pLast, pMain, INCRINIT_ROOT) at its h.k-th reader, then
\* the file set-up of the root IncrMerger
RootIters(h) ==
   Bind([iid \in {h.s.rdr.pIncr} |->
      Bind([pMain \in {h.i[iid].pMerger} |->
      Bind([nTree \in {h.e[pMain].nTree} |->
     IF h.k >= nTree
     THEN Bind([t \in {InitMergerTail(h, h.s.nTask - 1, pMain)} |->
              Bind([f \in {IncrInitFiles(t.h, iid)} |->
             [FailIf(f, f.i[iid].bEof # 0, "assert pIncr->bEof==0")
                EXCEPT !.pc = "rootpop", !.off = f.i[iid].iStartOff]])])
     ELSE Bind([n \in {vdbePmaReaderNext(h, IterRef(pMain, nTree - h.k - 1))} |->
             IF n.h.blk THEN Wait(h, n.h)
             ELSE IF n.rc # OK THEN Finish(n.h, n.rc, FALSE)
             ELSE [n.h EXCEPT !.k = h.k + 1]])])])])

\* vdbeIncrPopulate(root) run by the calling thread, one key per round, then
\* the final vdbePmaReaderNext(pIter) of vdbePmaReaderIncrInit
RootPopulate(h) ==
   Bind([iid \in {h.s.rdr.pIncr} |->
      Bind([st \in {PopulateStep(h, iid, h.off)} |->
     IF st.h.blk THEN Wait(h, st.h)
     ELSE IF ~st.brk THEN [st.h EXCEPT !.off = st.off]
     ELSE Bind([f \in {PopulateFinish(st.h, iid, st.off)} |->
          IF st.rc # OK THEN Finish(f, st.rc, FALSE)
          ELSE Bind([n \in {vdbePmaReaderNext(f, RootRef)} |->
                  IF n.h.blk THEN Wait(h, n.h) ELSE Finish(n.h, n.rc, FALSE)])])])])

OneStage(h) ==
  IF h.pc = "join" THEN (IF h.j >= 0 THEN vdbeSorterJoinAll(h) ELSE AfterJoin(h))
  ELSE IF h.pc = "root" THEN RootIters(h)
  ELSE IF h.pc = "rootpop" THEN RootPopulate(h)
  ELSE h

RECURSIVE RunMain(_)
RunMain(h) ==
   Bind([g \in {OneStage(h)} |-> IF Same(g, h) \/ g.x # {} THEN g ELSE RunMain(g)])

\* sqlite3VdbeSorterRewind writing a list that was never flushed to a PMA
sqlite3VdbeSorterRewind_AlwaysFlush(h, seen) ==
  IF h.s.bUsePMA = 0 /\ Len(h.s.list.pList) < 2
  THEN IF h.s.list.pList # <<>>
       THEN Bind([srt \in {vdbeSorterSort(h.t[0].pUnpacked, h.s.list.pList)} |->
               Finish(FailIf([h EXCEPT !.s.list.pList = srt.list,
                                       !.t[0].pUnpacked = srt.unp],
                             srt.bad, "stale pUnpacked"), OK, FALSE)])
       ELSE Finish(h, OK, TRUE)
  ELSE Bind([f \in {vdbeSorterFlushPMA(
                  FailIf(h, h.s.list.pList = <<>>, "assert pSorter->list.pList"), seen)} |->
          RunMain([f.h EXCEPT !.pc = "join", !.op = "Rewind", !.j = h.s.nTask - 1,
                              !.rc = f.rc])])

\* sqlite3VdbeSorterRewind
sqlite3VdbeSorterRewind(h, seen) ==
  IF h.s.bUsePMA = 0
  THEN IF h.s.list.pList # <<>>
       THEN Bind([srt \in {vdbeSorterSort(h.t[0].pUnpacked, h.s.list.pList)} |->
               Finish(FailIf([h EXCEPT !.s.list.pList = srt.list,
                                       !.t[0].pUnpacked = srt.unp],
                             srt.bad, "stale pUnpacked"), OK, FALSE)])
       ELSE Finish(h, OK, TRUE)
  ELSE Bind([f \in {vdbeSorterFlushPMA(
                  FailIf(h, h.s.list.pList = <<>>, "assert pSorter->list.pList"), seen)} |->
          RunMain([f.h EXCEPT !.pc = "join", !.op = "Rewind", !.j = h.s.nTask - 1,
                              !.rc = f.rc])])

\* sqlite3VdbeSorterNext
sqlite3VdbeSorterNext(h) ==
   Bind([s \in {h.s} |->
      Bind([h0 \in {FailIf(h, ~(s.bUsePMA = 1 \/ (s.pReader = 0 /\ s.pMerger = 0)),
                   "assert bUsePMA || (pReader==0 && pMerger==0)")} |->
     IF s.bUsePMA = 1
     THEN Bind([h1 \in {FailIf(h0, ~(s.pReader = 0 \/ s.pMerger = 0) \/
                               ~(s.bUseThreads = 0 \/ s.pReader # 0) \/
                               ~(s.bUseThreads = 1 \/ s.pMerger # 0),
                           "assert on pReader/pMerger in sqlite3VdbeSorterNext")} |->
             IF h1.x # {} THEN h1
             ELSE IF s.bUseThreads = 1
             THEN Bind([n \in {vdbePmaReaderNext(h1, RootRef)} |->
                     Finish(n.h, n.rc, n.h.s.rdr.pFile = 0)])
             ELSE Bind([n \in {vdbeSorterNext(h1, 0, s.pMerger)} |->
                     Finish(n.h, n.rc, n.eof)])])
     ELSE IF s.list.pList = <<>>
     THEN Fail(h0, "NULL pSorter->list.pList dereferenced")
     ELSE Finish([h0 EXCEPT !.s.list.pList = Tail(s.list.pList)], OK,
                 Tail(s.list.pList) = <<>>)])])

\* sqlite3VdbeSorterReset (bClose = FALSE) and sqlite3VdbeSorterClose
ResetOrClose(h, bClose) ==
  RunMain([h EXCEPT !.pc = "join", !.op = IF bClose THEN "Close" ELSE "Reset",
                    !.j = h.s.nTask - 1, !.rc = OK])

----------------------------------------------------------------------------
(* Expression trees (expr.c).  The heap h.hp holds the Expr, ExprList and   *)
(* Select objects and the string buffers by address; a freed cell stays in *)
(* place as Freed, and h.err collects the misuses of the allocator.        *)

HeapZero == [hp |-> <<>>, err |-> {}]
Freed == [t |-> "free"]
Allocated(h, p) == p \in 1..Len(h.hp) /\ h.hp[p] # Freed

sqliteMalloc(h, obj) == [h |-> [h EXCEPT !.hp = Append(h.hp, obj)], p |-> Len(h.hp) + 1]

sqliteFree(h, p) ==
  IF p = 0 THEN h
  ELSE IF ~Allocated(h, p) THEN [h EXCEPT !.err = @ \cup {"free of memory that is not allocated"}]
  ELSE [h EXCEPT !.hp[p] = Freed]

\* A char* is the buffer it points into (b: 0 for the text of the SQL
\* statement, else the address of an allocated string), the offset in the
\* statement, and the text: its quote character and the name or literal
NullZ == [b |-> -1, off |-> 0, q |-> "", s |-> ""]
NoToken == [z |-> NullZ, n |-> 0, dyn |-> 0]
Tok(off, q, s, n) == [z |-> [b |-> 0, off |-> off, q |-> q, s |-> s], n |-> n, dyn |-> 0]

\* sqliteFree() of a char*
FreeZ(h, z) ==
  IF z = NullZ THEN h
  ELSE IF z.b = 0 THEN [h EXCEPT !.err = @ \cup {"free of memory that is not allocated"}]
  ELSE sqliteFree(h, z.b)

\* sqliteStrDup, sqliteStrNDup: a copy of the text in a buffer of its own
sqliteStrDup(h, z) ==
  IF z = NullZ THEN [h |-> h, z |-> NullZ]
  ELSE Bind([m \in {sqliteMalloc(h, [t |-> "str", q |-> z.q, s |-> z.s])} |->
          [h |-> m.h, z |-> [z EXCEPT !.b = m.p]]])

\* sqlite3StrNICmp, sqlite3StrICmp: text compares without regard to case;
\* sqlite3StrNICmp is given the text of two tokens, quotes included, and
\* sqlite3StrICmp two names
Fold(s) ==
  IF s = "X" THEN "x" ELSE IF s = "A" THEN "a"
  ELSE IF s = "ROWID" THEN "rowid" ELSE IF s = "_ROWID_" THEN "_rowid_"
  ELSE IF s = "OID" THEN "oid" ELSE s
sqlite3StrNICmp(z1, z2) == IF Fold(z1.s) = Fold(z2.s) /\ z1.q = z2.q THEN 0 ELSE 1
sqlite3StrICmp(s1, s2) == IF Fold(s1) = Fold(s2) THEN 0 ELSE 1

ExprZero ==
  [t |-> "expr", op |-> "", pLeft |-> 0, pRight |-> 0, pList |-> 0, pSelect |-> 0,
   token |-> NoToken, span |-> NoToken, iDb |-> 0, iTable |-> 0, iColumn |-> 0,
   iAgg |-> 0, dataType |-> 0]

\* sqlite3ExprSpan: the span of the node at pExpr
sqlite3ExprSpan(h, pExpr, pLeft, pRight) ==
  IF pExpr # 0 /\ pRight.z # NullZ /\ pLeft.z # NullZ
  THEN IF pLeft.dyn = 0 /\ pRight.dyn = 0
       THEN [h EXCEPT !.hp[pExpr].span.z = pLeft.z,
                      !.hp[pExpr].span.n = pRight.n + pRight.z.off - pLeft.z.off]
       ELSE [h EXCEPT !.hp[pExpr].span.z = NullZ]
  ELSE h

\* sqlite3Expr
sqlite3Expr(h, op, pLeft, pRight, pToken) ==
   Bind([m \in {sqliteMalloc(h, [ExprZero EXCEPT !.op = op, !.pLeft = pLeft,
                                                 !.pRight = pRight])} |->
     IF pToken # NoToken
     THEN [h |-> [m.h EXCEPT !.hp[m.p].token = pToken, !.hp[m.p].span = pToken,
                             !.err = IF pToken.dyn # 0 THEN @ \cup {"assert pToken->dyn==0"} ELSE @],
           p |-> m.p]
     ELSE IF pLeft # 0 /\ pRight # 0
     THEN [h |-> sqlite3ExprSpan(m.h, m.p, m.h.hp[pLeft].span, m.h.hp[pRight].span), p |-> m.p]
     ELSE m])

\* sqlite3ExprFunction
sqlite3ExprFunction(h, pList, pToken) ==
   Bind([m \in {sqliteMalloc(h, [ExprZero EXCEPT !.op = "TK_FUNCTION", !.pList = pList])} |->
     [h |-> [m.h EXCEPT !.hp[m.p].token = pToken, !.hp[m.p].span = pToken], p |-> m.p]])

\* sqlite3ExprListAppend; the name of the item is a dequoted copy of pName
sqlite3ExprListAppend(h, pList, pExpr, pName) ==
   Bind([m \in {IF pList = 0 THEN sqliteMalloc(h, [t |-> "list", nExpr |-> 0, a |-> <<>>])
                ELSE [h |-> h, p |-> pList]} |->
      Bind([nm \in {IF pName # NoToken THEN sqliteStrDup(m.h, [pName.z EXCEPT !.q = ""])
                    ELSE [h |-> m.h, z |-> NullZ]} |->
     [h |-> [nm.h EXCEPT !.hp[m.p].nExpr = @ + 1,
                         !.hp[m.p].a = Append(@, [pExpr |-> pExpr, zName |-> nm.z])],
      p |-> m.p]])])

RECURSIVE sqlite3ExprDelete(_, _), sqlite3ExprListDelete(_, _), sqlite3SelectDelete(_, _)
RECURSIVE ListDeleteLoop(_, _, _)

\* sqlite3ExprDelete
sqlite3ExprDelete(h, p) ==
  IF p = 0 THEN h
  ELSE IF ~Allocated(h, p) THEN [h EXCEPT !.err = @ \cup {"use of a freed Expr"}]
  ELSE Bind([e \in {h.hp[p]} |->
          Bind([h1 \in {IF e.span.dyn # 0 THEN FreeZ(h, e.span.z) ELSE h} |->
          Bind([h2 \in {IF e.token.dyn # 0 THEN FreeZ(h1, e.token.z) ELSE h1} |->
          Bind([h3 \in {sqlite3ExprDelete(h2, e.pLeft)} |->
          Bind([h4 \in {sqlite3ExprDelete(h3, e.pRight)} |->
          Bind([h5 \in {sqlite3ExprListDelete(h4, e.pList)} |->
          Bind([h6 \in {sqlite3SelectDelete(h5, e.pSelect)} |->
            sqliteFree(h6, p)])])])])])])])

ListDeleteLoop(h, a, i) ==
  IF i > Len(a) THEN h
  ELSE ListDeleteLoop(FreeZ(sqlite3ExprDelete(h, a[i].pExpr), a[i].zName), a, i + 1)

\* sqlite3ExprListDelete
sqlite3ExprListDelete(h, pList) ==
  IF pList = 0 THEN h
  ELSE IF ~Allocated(h, pList) THEN [h EXCEPT !.err = @ \cup {"use of a freed ExprList"}]
  ELSE sqliteFree(ListDeleteLoop(h, h.hp[pList].a, 1), pList)

\* sqlite3SelectDelete, for a Select of a result list and a WHERE clause
sqlite3SelectDelete(h, p) ==
  IF p = 0 THEN h
  ELSE IF ~Allocated(h, p) THEN [h EXCEPT !.err = @ \cup {"use of a freed Select"}]
  ELSE sqliteFree(sqlite3ExprDelete(sqlite3ExprListDelete(h, h.hp[p].pEList),
                                    h.hp[p].pWhere), p)

\* sqlite3TokenCopy into the span of the node at pTo
sqlite3TokenCopy(h, pTo, pFrom) ==
   Bind([h1 \in {IF h.hp[pTo].span.dyn # 0 THEN FreeZ(h, h.hp[pTo].span.z) ELSE h} |->
     IF pFrom.z # NullZ
     THEN Bind([m \in {sqliteStrDup(h1, pFrom.z)} |->
             [m.h EXCEPT !.hp[pTo].span = [z |-> m.z, n |-> pFrom.n, dyn |-> 1]]])
     ELSE [h1 EXCEPT !.hp[pTo].span.z = NullZ]])

RECURSIVE sqlite3ExprDup(_, _), sqlite3ExprListDup(_, _), sqlite3SelectDup(_, _)
RECURSIVE ListDupLoop(_, _, _, _)

\* A faulty sqlite3ExprDup that leaves the token of the copy in the buffer
\* of the original
sqlite3ExprDup_SharedToken(h, p) ==
  IF p = 0 THEN [h |-> h, p |-> 0]
  ELSE Bind([old \in {h.hp[p]} |->
          Bind([m \in {sqliteMalloc(h, old)} |->
          Bind([l \in {sqlite3ExprDup(m.h, old.pLeft)} |->
          Bind([r \in {sqlite3ExprDup(l.h, old.pRight)} |->
          Bind([li \in {sqlite3ExprListDup(r.h, old.pList)} |->
          Bind([se \in {sqlite3SelectDup(li.h, old.pSelect)} |->
            [h |-> [se.h EXCEPT !.hp[m.p].token.dyn = IF old.token.z # NullZ THEN 1 ELSE @,
                                !.hp[m.p].span.z = NullZ,
                                !.hp[m.p].pLeft = l.p,
                                !.hp[m.p].pRight = r.p,
                                !.hp[m.p].pList = li.p,
                                !.hp[m.p].pSelect = se.p],
             p |-> m.p]])])])])])])

\* sqlite3ExprDup
sqlite3ExprDup(h, p) ==
  IF p = 0 THEN [h |-> h, p |-> 0]
  ELSE Bind([old \in {h.hp[p]} |->
          Bind([m \in {sqliteMalloc(h, old)} |->
          Bind([tz \in {sqliteStrDup(m.h, old.token.z)} |->
          Bind([l \in {sqlite3ExprDup(tz.h, old.pLeft)} |->
          Bind([r \in {sqlite3ExprDup(l.h, old.pRight)} |->
          Bind([li \in {sqlite3ExprListDup(r.h, old.pList)} |->
          Bind([se \in {sqlite3SelectDup(li.h, old.pSelect)} |->
            [h |-> [se.h EXCEPT !.hp[m.p].token.z = tz.z,
                                !.hp[m.p].token.dyn = IF old.token.z # NullZ THEN 1 ELSE @,
                                !.hp[m.p].span.z = NullZ,
                                !.hp[m.p].pLeft = l.p,
                                !.hp[m.p].pRight = r.p,
                                !.hp[m.p].pList = li.p,
                                !.hp[m.p].pSelect = se.p],
             p |-> m.p]])])])])])])])

ListDupLoop(h, a, i, acc) ==
  IF i > Len(a) THEN [h |-> h, a |-> acc]
  ELSE Bind([pOldExpr \in {a[i].pExpr} |->
          Bind([d \in {sqlite3ExprDup(h, pOldExpr)} |->
          Bind([h1 \in {IF h.hp[pOldExpr].span.z # NullZ /\ d.p # 0
                        THEN sqlite3TokenCopy(d.h, d.p, h.hp[pOldExpr].span)
                        ELSE d.h} |->
          Bind([nm \in {sqliteStrDup(h1, a[i].zName)} |->
            ListDupLoop(nm.h, a, i + 1, Append(acc, [pExpr |-> d.p, zName |-> nm.z]))])])])])

\* sqlite3ExprListDup
sqlite3ExprListDup(h, p) ==
  IF p = 0 THEN [h |-> h, p |-> 0]
  ELSE Bind([m \in {sqliteMalloc(h, [t |-> "list", nExpr |-> h.hp[p].nExpr, a |-> <<>>])} |->
          Bind([l \in {ListDupLoop(m.h, h.hp[p].a, 1, <<>>)} |->
            [h |-> [l.h EXCEPT !.hp[m.p].a = l.a], p |-> m.p]])])

\* sqlite3SelectDup, for a Select of a result list and a WHERE clause
sqlite3SelectDup(h, p) ==
  IF p = 0 THEN [h |-> h, p |-> 0]
  ELSE Bind([m \in {sqliteMalloc(h, [t |-> "select", pEList |-> 0, pWhere |-> 0])} |->
          Bind([el \in {sqlite3ExprListDup(m.h, h.hp[p].pEList)} |->
          Bind([w \in {sqlite3ExprDup(el.h, h.hp[p].pWhere)} |->
            [h |-> [w.h EXCEPT !.hp[m.p].pEList = el.p, !.hp[m.p].pWhere = w.p],
             p |-> m.p]])])])

RECURSIVE sqlite3ExprCompare(_, _, _)
RECURSIVE ListCompareLoop(_, _, _, _)

ListCompareLoop(h, a, b, i) ==
  IF i > Len(a) THEN TRUE
  ELSE IF ~sqlite3ExprCompare(h, a[i].pExpr, b[i].pExpr) THEN FALSE
  ELSE ListCompareLoop(h, a, b, i + 1)

\* sqlite3ExprCompare
sqlite3ExprCompare(h, pA, pB) ==
  IF pA = 0 THEN pB = 0
  ELSE IF pB = 0 THEN FALSE
  ELSE Bind([A \in {h.hp[pA]} |->
          Bind([B \in {h.hp[pB]} |->
            IF A.op # B.op THEN FALSE
            ELSE IF ~sqlite3ExprCompare(h, A.pLeft, B.pLeft) THEN FALSE
            ELSE IF ~sqlite3ExprCompare(h, A.pRight, B.pRight) THEN FALSE
            ELSE IF A.pList # 0 /\ B.pList = 0 THEN FALSE
            ELSE IF A.pList # 0 /\ h.hp[A.pList].nExpr # h.hp[B.pList].nExpr THEN FALSE
            ELSE IF A.pList # 0 /\ ~ListCompareLoop(h, h.hp[A.pList].a, h.hp[B.pList].a, 1)
                 THEN FALSE
            ELSE IF A.pList = 0 /\ B.pList # 0 THEN FALSE
            ELSE IF A.pSelect # 0 \/ B.pSelect # 0 THEN FALSE
            ELSE IF A.iTable # B.iTable \/ A.iColumn # B.iColumn THEN FALSE
            ELSE IF A.token.z # NullZ /\ B.token.z = NullZ THEN FALSE
            ELSE IF A.token.z # NullZ /\ B.token.n # A.token.n THEN FALSE
            ELSE IF A.token.z # NullZ /\ sqlite3StrNICmp(A.token.z, B.token.z) # 0 THEN FALSE
            ELSE TRUE])])


\* The tables that names are looked up in (pSrcList): t1(a, x) under cursor 0
\* and t2(b INTEGER PRIMARY KEY, x) under cursor 1, both of database "main"
SQLITE_SO_TEXT == 2
SQLITE_SO_NUM == 4
SrcTables ==
  << [zAlias |-> "", iCursor |-> 0,
      pTab |-> [zName |-> "t1", zDb |-> "main", iDb |-> 0, iPKey |-> -1,
                aCol |-> << [zName |-> "a", type |-> SQLITE_SO_NUM],
                            [zName |-> "x", type |-> SQLITE_SO_TEXT] >>]],
     [zAlias |-> "", iCursor |-> 1,
      pTab |-> [zName |-> "t2", zDb |-> "main", iDb |-> 0, iPKey |-> 0,
                aCol |-> << [zName |-> "b", type |-> SQLITE_SO_NUM],
                            [zName |-> "x", type |-> SQLITE_SO_TEXT] >>]] >>

\* the name in an error message: X.Y.Z, Y.Z or Z
Qualified(zDb, zTab, zCol) == [db |-> zDb, tab |-> zTab, col |-> zCol]

\* The Parse context: errors, cursors, sets and memory cells handed out, the
\* number of VDBE instructions emitted, the aggregate table aAgg[0..nAgg-1],
\* the Vdbe under construction and the file format of the database
ParseZero ==
  [nErr |-> 0, zErrMsg |-> [fmt |-> "", name |-> Qualified("", "", "")],
   nTab |-> Len(SrcTables), nSet |-> 0, nMem |-> 0, nOp |-> 0, aAgg |-> <<>>,
   pVdbe |-> [aOp |-> <<>>, aLabel |-> <<>>, nResolve |-> <<>>], useAgg |-> 0,
   file_format |-> 4,
   trigStack |-> 0]

\* sqlite3ErrorMsg
sqlite3ErrorMsg(P, fmt, name) ==
  [P EXCEPT !.nErr = @ + 1, !.zErrMsg = [fmt |-> fmt, name |-> name]]

\* The functions registered with the database (db->aFunc): for every name
\* the chain of its FuncDefs.  agg: the function is an aggregate (xFunc==0,
\* xStep!=0); dataType: the index of the argument that gives the type, or
\* SQLITE_NUMERIC, SQLITE_TEXT, SQLITE_ARGS
SQLITE_NUMERIC == -1
SQLITE_TEXT == -2
SQLITE_ARGS == -3
NoFunc == [zName |-> "", nArg |-> 0, agg |-> FALSE, dataType |-> 0]
FuncDef(zName, nArg, agg, dataType) ==
  [zName |-> zName, nArg |-> nArg, agg |-> agg, dataType |-> dataType]
sqlite3HashFind(zName) ==
  IF Fold(zName) = "count" THEN <<FuncDef("count", 0, TRUE, SQLITE_NUMERIC),
                                  FuncDef("count", 1, TRUE, SQLITE_NUMERIC)>>
  ELSE IF Fold(zName) = "max" THEN <<FuncDef("max", 1, TRUE, 0)>>
  ELSE IF Fold(zName) = "abs" THEN <<FuncDef("abs", 1, FALSE, 0)>>
  ELSE IF Fold(zName) = "upper" THEN <<FuncDef("upper", 1, FALSE, SQLITE_TEXT)>>
  ELSE IF Fold(zName) = "like" THEN <<FuncDef("like", 2, FALSE, SQLITE_NUMERIC)>>
  ELSE IF Fold(zName) = "glob" THEN <<FuncDef("glob", 2, FALSE, SQLITE_NUMERIC)>>
  ELSE <<>>

\* sqlite3FindFunction: the walk along the chain for nArg>=0
RECURSIVE FindLoop(_, _, _, _)
FindLoop(chain, nArg, i, pMaybe) ==
  IF i > Len(chain) THEN pMaybe
  ELSE IF chain[i].nArg = nArg THEN chain[i]
  ELSE FindLoop(chain, nArg, i + 1, IF chain[i].nArg < 0 THEN chain[i] ELSE pMaybe)

\* sqlite3FindFunction with createFlag==0; every registered FuncDef has an
\* xFunc or an xStep
sqlite3FindFunction(zName, nArg) ==
  IF nArg < 0
  THEN IF sqlite3HashFind(zName) = <<>> THEN NoFunc ELSE sqlite3HashFind(zName)[1]
  ELSE FindLoop(sqlite3HashFind(zName), nArg, 1, NoFunc)

\* getFunctionName
getFunctionName(e) ==
  IF e.op = "TK_FUNCTION" THEN e.token.z.s
  ELSE IF e.op = "TK_LIKE" THEN "like"
  ELSE IF e.op = "TK_GLOB" THEN "glob"
  ELSE "can't happen"

NumOps ==
  {"TK_PLUS", "TK_MINUS", "TK_STAR", "TK_SLASH", "TK_AND", "TK_OR", "TK_ISNULL",
   "TK_NOTNULL", "TK_NOT", "TK_UMINUS", "TK_UPLUS", "TK_BITAND", "TK_BITOR",
   "TK_BITNOT", "TK_LSHIFT", "TK_RSHIFT", "TK_REM", "TK_INTEGER", "TK_FLOAT",
   "TK_IN", "TK_BETWEEN", "TK_GLOB", "TK_LIKE"}
TextOps == {"TK_STRING", "TK_NULL", "TK_CONCAT", "TK_VARIABLE"}
CompareOps == {"TK_LT", "TK_LE", "TK_GT", "TK_GE", "TK_NE", "TK_EQ"}

\* what sqlite3ExprType gives when its assert( p->op==TK_ABORT ) fails
NoType == 0

\* A comparison whose type is that of its left operand alone; the rule table
\* is checked against it
RECURSIVE sqlite3ExprType_LeftOnly(_, _)
RECURSIVE CaseLoop_LeftOnly(_, _, _)
CaseLoop_LeftOnly(h, a, i) ==
  IF i >= Len(a) THEN SQLITE_SO_TEXT
  ELSE IF sqlite3ExprType_LeftOnly(h, a[i + 1].pExpr) = SQLITE_SO_NUM THEN SQLITE_SO_NUM
  ELSE CaseLoop_LeftOnly(h, a, i + 2)

sqlite3ExprType_LeftOnly(h, p) ==
  IF p = 0 THEN SQLITE_SO_NUM
  ELSE Bind([e \in {h.hp[p]} |->
     IF e.op \in NumOps THEN SQLITE_SO_NUM
     ELSE IF e.op \in TextOps THEN SQLITE_SO_TEXT
     ELSE IF e.op \in CompareOps THEN sqlite3ExprType_LeftOnly(h, e.pLeft)
     ELSE IF e.op = "TK_AS" THEN sqlite3ExprType_LeftOnly(h, e.pLeft)
     ELSE IF e.op \in {"TK_COLUMN", "TK_FUNCTION", "TK_AGG_FUNCTION"} THEN e.dataType
     ELSE IF e.op = "TK_SELECT"
     THEN sqlite3ExprType_LeftOnly(h, h.hp[h.hp[e.pSelect].pEList].a[1].pExpr)
     ELSE IF e.op = "TK_CASE"
     THEN IF e.pRight # 0 /\ sqlite3ExprType_LeftOnly(h, e.pRight) = SQLITE_SO_NUM
          THEN SQLITE_SO_NUM
          ELSE IF e.pList # 0 THEN CaseLoop_LeftOnly(h, h.hp[e.pList].a, 1)
          ELSE SQLITE_SO_TEXT
     ELSE NoType])

RECURSIVE sqlite3ExprType(_, _)
RECURSIVE CaseLoop(_, _, _)

\* sqlite3ExprType: the loop over the THEN values a[1], a[3], ... of a CASE
CaseLoop(h, a, i) ==
  IF i >= Len(a) THEN SQLITE_SO_TEXT
  ELSE IF sqlite3ExprType(h, a[i + 1].pExpr) = SQLITE_SO_NUM THEN SQLITE_SO_NUM
  ELSE CaseLoop(h, a, i + 2)

\* sqlite3ExprType
sqlite3ExprType(h, p) ==
  IF p = 0 THEN SQLITE_SO_NUM
  ELSE Bind([e \in {h.hp[p]} |->
     IF e.op \in NumOps THEN SQLITE_SO_NUM
     ELSE IF e.op \in TextOps THEN SQLITE_SO_TEXT
     ELSE IF e.op \in CompareOps
     THEN IF sqlite3ExprType(h, e.pLeft) = SQLITE_SO_NUM THEN SQLITE_SO_NUM
          ELSE sqlite3ExprType(h, e.pRight)
     ELSE IF e.op = "TK_AS" THEN sqlite3ExprType(h, e.pLeft)
     ELSE IF e.op \in {"TK_COLUMN", "TK_FUNCTION", "TK_AGG_FUNCTION"} THEN e.dataType
     ELSE IF e.op = "TK_SELECT"
     THEN sqlite3ExprType(h, h.hp[h.hp[e.pSelect].pEList].a[1].pExpr)
     ELSE IF e.op = "TK_CASE"
     THEN IF e.pRight # 0 /\ sqlite3ExprType(h, e.pRight) = SQLITE_SO_NUM
          THEN SQLITE_SO_NUM
          ELSE IF e.pList # 0 THEN CaseLoop(h, h.hp[e.pList].a, 1)
          ELSE SQLITE_SO_TEXT
     ELSE NoType])

\* sqlite3ExprCheck: the type that a function node gets from its FuncDef
FuncType(h, e, pDef, n) ==
  IF pDef.dataType >= 0
  THEN IF pDef.dataType < n
       THEN sqlite3ExprType(h, h.hp[e.pList].a[pDef.dataType + 1].pExpr)
       ELSE SQLITE_SO_NUM
  ELSE IF pDef.dataType = SQLITE_ARGS
  THEN IF \E i \in 1..n : sqlite3ExprType(h, h.hp[e.pList].a[i].pExpr) = SQLITE_SO_NUM
       THEN SQLITE_SO_NUM ELSE e.dataType
  ELSE IF pDef.dataType = SQLITE_NUMERIC THEN SQLITE_SO_NUM
  ELSE SQLITE_SO_TEXT

RECURSIVE sqlite3ExprCheck(_, _, _, _, _)
RECURSIVE CheckListLoop(_, _, _, _, _)

\* sqlite3ExprCheck: for(i=0; nErr==0 && i<n; i++) over the list a, from a
\* result r of the checks before
CheckListLoop(r, pList, i, n, allowAgg) ==
  IF r.nErr # 0 \/ i >= n THEN r
  ELSE CheckListLoop(sqlite3ExprCheck(r.h, r.P, r.h.hp[pList].a[i + 1].pExpr, allowAgg, r.isAgg),
                     pList, i + 1, n, allowAgg)

\* sqlite3ExprCheck: the children of the node, as the default case walks them
CheckChildren(r, pExpr, allowAgg) ==
   Bind([e \in {r.h.hp[pExpr]} |->
      Bind([l \in {IF e.pLeft # 0 THEN sqlite3ExprCheck(r.h, r.P, e.pLeft, allowAgg, r.isAgg)
                   ELSE r} |->
      Bind([rr \in {IF l.nErr = 0 /\ e.pRight # 0
                    THEN sqlite3ExprCheck(l.h, l.P, e.pRight, allowAgg, l.isAgg)
                    ELSE l} |->
        IF rr.nErr = 0 /\ e.pList # 0
        THEN CheckListLoop(rr, e.pList, 0, rr.h.hp[e.pList].nExpr, allowAgg)
        ELSE rr])])])

\* sqlite3ExprCheck; the result holds the number of errors and *pIsAgg
sqlite3ExprCheck(h, P, pExpr, allowAgg, isAgg) ==
  IF pExpr = 0 THEN [h |-> h, P |-> P, nErr |-> 0, isAgg |-> isAgg]
  ELSE IF h.hp[pExpr].op \notin {"TK_GLOB", "TK_LIKE", "TK_FUNCTION"}
  THEN CheckChildren([h |-> h, P |-> P, nErr |-> 0, isAgg |-> isAgg], pExpr, allowAgg)
  ELSE
   Bind([e \in {h.hp[pExpr]} |->
      Bind([n \in {IF e.pList # 0 THEN h.hp[e.pList].nExpr ELSE 0} |->
      Bind([zId \in {getFunctionName(e)} |->
      Bind([pDef0 \in {sqlite3FindFunction(zId, n)} |->
      Bind([pDef \in {IF pDef0 = NoFunc THEN sqlite3FindFunction(zId, -1) ELSE pDef0} |->
      Bind([is_agg0 \in {pDef0 # NoFunc /\ pDef0.agg} |->
      Bind([P1 \in {IF is_agg0 /\ ~allowAgg
                    THEN sqlite3ErrorMsg(P, "misuse of aggregate function %.*s()", Qualified("", "", zId))
                    ELSE IF pDef = NoFunc
                    THEN sqlite3ErrorMsg(P, "no such function: %.*s", Qualified("", "", zId))
                    ELSE IF pDef0 = NoFunc
                    THEN sqlite3ErrorMsg(P, "wrong number of arguments to function %.*s()", Qualified("", "", zId))
                    ELSE P} |->
      Bind([is_agg \in {is_agg0 /\ allowAgg} |->
      Bind([h1 \in {IF is_agg THEN [h EXCEPT !.hp[pExpr].op = "TK_AGG_FUNCTION"] ELSE h} |->
      Bind([a \in {CheckListLoop([h |-> h1, P |-> P1, nErr |-> P1.nErr - P.nErr,
                                  isAgg |-> IF is_agg THEN 1 ELSE isAgg],
                                 e.pList, 0, n, allowAgg /\ ~is_agg)} |->
      Bind([h2 \in {IF pDef = NoFunc THEN a.h
                    ELSE [a.h EXCEPT !.hp[pExpr].dataType =
                                        FuncType(a.h, a.h.hp[pExpr], pDef, n)]} |->
        CheckChildren([a EXCEPT !.h = h2], pExpr, allowAgg)])])])])])])])])])])])

\* sqlite3IsRowid
sqlite3IsRowid(z) ==
  sqlite3StrICmp(z, "_ROWID_") = 0 \/ sqlite3StrICmp(z, "ROWID") = 0 \/ sqlite3StrICmp(z, "OID") = 0

RECURSIVE sqlite3ExprIsConstant(_, _)
sqlite3ExprIsConstant(h, p) ==
   Bind([e \in {h.hp[p]} |->
     IF e.op \in {"TK_ID", "TK_COLUMN", "TK_DOT", "TK_FUNCTION"} THEN FALSE
     ELSE IF e.op \in {"TK_NULL", "TK_STRING", "TK_INTEGER", "TK_FLOAT", "TK_VARIABLE"} THEN TRUE
     ELSE IF e.pLeft # 0 /\ ~sqlite3ExprIsConstant(h, e.pLeft) THEN FALSE
     ELSE IF e.pRight # 0 /\ ~sqlite3ExprIsConstant(h, e.pRight) THEN FALSE
     ELSE IF e.pList # 0 /\ \E i \in 1..h.hp[e.pList].nExpr :
                               ~sqlite3ExprIsConstant(h, h.hp[e.pList].a[i].pExpr)
          THEN FALSE
     ELSE e.pLeft # 0 \/ e.pRight # 0 \/ (e.pList # 0 /\ h.hp[e.pList].nExpr > 0)])

\* lookupName: the column loop over table pTab; 0 when no column matches
RECURSIVE ColLoop(_, _, _)
ColLoop(pTab, zCol, j) ==
  IF j >= Len(pTab.aCol) THEN -1
  ELSE IF sqlite3StrICmp(pTab.aCol[j + 1].zName, zCol) = 0 THEN j
  ELSE ColLoop(pTab, zCol, j + 1)

\* lookupName: the loop over pSrcList that stops at the first match; the
\* error reports are checked against it
RECURSIVE SrcLoop_FirstMatch(_, _, _, _, _, _)
SrcLoop_FirstMatch(pSrcList, zDb, zTab, zCol, st, i) ==
  IF i >= Len(pSrcList) \/ st.cnt > 0 THEN st
  ELSE Bind([pItem \in {pSrcList[i + 1]} |->
          Bind([pTab \in {pItem.pTab} |->
            IF zTab # "" /\ pItem.zAlias # "" /\ sqlite3StrICmp(pItem.zAlias, zTab) # 0
            THEN SrcLoop_FirstMatch(pSrcList, zDb, zTab, zCol, st, i + 1)
            ELSE IF zTab # "" /\ pItem.zAlias = ""
                    /\ (sqlite3StrICmp(pTab.zName, zTab) # 0
                        \/ (zDb # "" /\ sqlite3StrICmp(pTab.zDb, zDb) # 0))
            THEN SrcLoop_FirstMatch(pSrcList, zDb, zTab, zCol, st, i + 1)
            ELSE Bind([s1 \in {[st EXCEPT !.cntTab = @ + 1,
                                          !.e.iTable = IF st.cntTab = 0 THEN pItem.iCursor ELSE @,
                                          !.e.iDb = IF st.cntTab = 0 THEN pTab.iDb ELSE @]} |->
                 Bind([j \in {ColLoop(pTab, zCol, 0)} |->
                    SrcLoop_FirstMatch(pSrcList, zDb, zTab, zCol,
                       IF j < 0 THEN s1
                       ELSE [s1 EXCEPT !.cnt = @ + 1,
                                       !.e.iTable = pItem.iCursor,
                                       !.e.iDb = pTab.iDb,
                                       !.e.iColumn = IF j = pTab.iPKey THEN -1 ELSE j,
                                       !.e.dataType = pTab.aCol[j + 1].type],
                       i + 1)])])])])

\* lookupName: the loop over the tables of pSrcList
RECURSIVE SrcLoop(_, _, _, _, _, _)
SrcLoop(pSrcList, zDb, zTab, zCol, st, i) ==
  IF i >= Len(pSrcList) THEN st
  ELSE Bind([pItem \in {pSrcList[i + 1]} |->
          Bind([pTab \in {pItem.pTab} |->
            IF zTab # "" /\ pItem.zAlias # "" /\ sqlite3StrICmp(pItem.zAlias, zTab) # 0
            THEN SrcLoop(pSrcList, zDb, zTab, zCol, st, i + 1)
            ELSE IF zTab # "" /\ pItem.zAlias = ""
                    /\ (sqlite3StrICmp(pTab.zName, zTab) # 0
                        \/ (zDb # "" /\ sqlite3StrICmp(pTab.zDb, zDb) # 0))
            THEN SrcLoop(pSrcList, zDb, zTab, zCol, st, i + 1)
            ELSE Bind([s1 \in {[st EXCEPT !.cntTab = @ + 1,
                                          !.e.iTable = IF st.cntTab = 0 THEN pItem.iCursor ELSE @,
                                          !.e.iDb = IF st.cntTab = 0 THEN pTab.iDb ELSE @]} |->
                 Bind([j \in {ColLoop(pTab, zCol, 0)} |->
                    SrcLoop(pSrcList, zDb, zTab, zCol,
                       IF j < 0 THEN s1
                       ELSE [s1 EXCEPT !.cnt = @ + 1,
                                       !.e.iTable = pItem.iCursor,
                                       !.e.iDb = pTab.iDb,
                                       !.e.iColumn = IF j = pTab.iPKey THEN -1 ELSE j,
                                       !.e.dataType = pTab.aCol[j + 1].type],
                       i + 1)])])])])

\* lookupName: the index of the first result column named zCol, or -1
RECURSIVE AliasLoop(_, _, _)
AliasLoop(a, zCol, j) ==
  IF j >= Len(a) THEN -1
  ELSE IF a[j + 1].zName # NullZ /\ sqlite3StrICmp(a[j + 1].zName.s, zCol) = 0 THEN j
  ELSE AliasLoop(a, zCol, j + 1)

\* A faulty alias rewrite that leaves the node an identifier
AliasRewrite_KeepsId(h, pExpr, e, pEList, j) ==
   Bind([d \in {sqlite3ExprDup([h EXCEPT !.hp[pExpr] = e], h.hp[pEList].a[j + 1].pExpr)} |->
     [d.h EXCEPT !.hp[pExpr].iColumn = j,
                 !.hp[pExpr].pLeft = d.p,
                 !.err = IF e.pLeft # 0 \/ e.pRight # 0
                         THEN @ \cup {"assert pExpr->pLeft==0 && pExpr->pRight==0"} ELSE @]])

\* lookupName: the node becomes TK_AS over a copy of result column j
AliasRewrite(h, pExpr, e, pEList, j) ==
   Bind([d \in {sqlite3ExprDup([h EXCEPT !.hp[pExpr] = e], h.hp[pEList].a[j + 1].pExpr)} |->
     [d.h EXCEPT !.hp[pExpr].op = "TK_AS",
                 !.hp[pExpr].iColumn = j,
                 !.hp[pExpr].pLeft = d.p,
                 !.err = IF e.pLeft # 0 \/ e.pRight # 0
                         THEN @ \cup {"assert pExpr->pLeft==0 && pExpr->pRight==0"} ELSE @]])

\* lookupName, for a statement outside of a trigger (pParse->trigStack==0)
lookupName(h, P, pDbToken, pTableToken, pColumnToken, pSrcList, pEList, pExpr) ==
   Bind([zDb \in {IF pDbToken # NoToken /\ pDbToken.z # NullZ THEN pDbToken.z.s ELSE ""} |->
      Bind([zTab \in {IF pTableToken # NoToken /\ pTableToken.z # NullZ
                      THEN pTableToken.z.s ELSE ""} |->
      Bind([zCol \in {pColumnToken.z.s} |->
      Bind([h0 \in {[h EXCEPT !.err = IF zTab # "" /\ pEList # 0
                                      THEN @ \cup {"assert zTab==0 || pEList==0"} ELSE @]} |->
      Bind([st0 \in {SrcLoop(pSrcList, zDb, zTab, zCol,
                             [cnt |-> 0, cntTab |-> 0,
                              e |-> [h0.hp[pExpr] EXCEPT !.iTable = -1]], 0)} |->
      Bind([st \in {IF st0.cnt = 0 /\ st0.cntTab = 1 /\ sqlite3IsRowid(zCol)
                    THEN [st0 EXCEPT !.cnt = 1, !.e.iColumn = -1, !.e.dataType = SQLITE_SO_NUM]
                    ELSE st0} |->
      Bind([j \in {IF st.cnt = 0 /\ pEList # 0 THEN AliasLoop(h0.hp[pEList].a, zCol, 0)
                   ELSE -1} |->
     IF j >= 0
     THEN [h |-> AliasRewrite(h0, pExpr, st.e, pEList, j), P |-> P, rc |-> 0]
     ELSE IF st.cnt = 0 /\ zTab = "" /\ pColumnToken.z.q = "\""
     THEN [h |-> [h0 EXCEPT !.hp[pExpr] = st.e], P |-> P, rc |-> 0]
     ELSE Bind([P1 \in {IF st.cnt # 1
                        THEN sqlite3ErrorMsg(P, IF st.cnt = 0 THEN "no such column: %s"
                                                ELSE "ambiguous column name: %s",
                                             Qualified(zDb, zTab, zCol))
                        ELSE P} |->
             Bind([h1 \in {sqlite3ExprDelete([h0 EXCEPT !.hp[pExpr] = st.e], st.e.pLeft)} |->
             Bind([h2 \in {sqlite3ExprDelete([h1 EXCEPT !.hp[pExpr].pLeft = 0], st.e.pRight)} |->
               [h |-> [h2 EXCEPT !.hp[pExpr].pRight = 0, !.hp[pExpr].op = "TK_COLUMN"],
                P |-> P1,
                rc |-> IF st.cnt # 1 THEN 1 ELSE 0]])])])])])])])])])])

\* sqlite3Select of a sub-select: the statements compiled here have
\* sub-selects that compile without an error; one instruction stands for
\* its code
sqlite3Select(P, pSelect) == [P |-> [P EXCEPT !.nOp = @ + 1], rc |-> 0]

\* sqlite3ExprResolveIds: every value of an IN list must be a constant that
\* passes sqlite3ExprCheck
RECURSIVE InListLoop(_, _, _, _)
InListLoop(h, P, a, i) ==
  IF i > Len(a) THEN [h |-> h, P |-> P, rc |-> 0]
  ELSE IF ~sqlite3ExprIsConstant(h, a[i].pExpr)
  THEN [h |-> h,
        P |-> sqlite3ErrorMsg(P, "right-hand side of IN operator must be constant",
                              Qualified("", "", "")),
        rc |-> 1]
  ELSE Bind([c \in {sqlite3ExprCheck(h, P, a[i].pExpr, FALSE, 0)} |->
          IF c.nErr # 0 THEN [h |-> c.h, P |-> c.P, rc |-> 1]
          ELSE InListLoop(c.h, c.P, a, i + 1)])

RECURSIVE sqlite3ExprResolveIds(_, _, _, _, _)
RECURSIVE ResolveListLoop(_, _, _, _, _, _)

\* sqlite3ExprResolveIds: the arguments of a function, one after the other
ResolveListLoop(h, P, pSrcList, pEList, a, i) ==
  IF i > Len(a) THEN [h |-> h, P |-> P, rc |-> 0]
  ELSE Bind([r \in {sqlite3ExprResolveIds(h, P, pSrcList, pEList, a[i].pExpr)} |->
          IF r.rc # 0 THEN r
          ELSE ResolveListLoop(r.h, r.P, pSrcList, pEList, a, i + 1)])

\* sqlite3ExprResolveIds
sqlite3ExprResolveIds(h, P, pSrcList, pEList, pExpr) ==
  IF pExpr = 0 THEN [h |-> h, P |-> P, rc |-> 0]
  ELSE
   Bind([e \in {h.hp[pExpr]} |->
     IF e.op = "TK_STRING" /\ e.token.z.q = "'" THEN [h |-> h, P |-> P, rc |-> 0]
     ELSE IF e.op \in {"TK_STRING", "TK_ID"}
     THEN lookupName(h, P, NoToken, NoToken, e.token, pSrcList, pEList, pExpr)
     ELSE IF e.op = "TK_DOT"
     THEN Bind([pRight \in {h.hp[e.pRight]} |->
            IF pRight.op = "TK_ID"
            THEN lookupName(h, P, NoToken, h.hp[e.pLeft].token, pRight.token,
                            pSrcList, 0, pExpr)
            ELSE lookupName([h EXCEPT !.err = IF pRight.op # "TK_DOT"
                                              THEN @ \cup {"assert pRight->op==TK_DOT"} ELSE @],
                            P, h.hp[e.pLeft].token, h.hp[pRight.pLeft].token,
                            h.hp[pRight.pRight].token, pSrcList, 0, pExpr)])
     ELSE IF e.op = "TK_IN"
     THEN Bind([l \in {sqlite3ExprResolveIds(h, P, pSrcList, pEList, e.pLeft)} |->
            IF l.rc # 0 THEN [l EXCEPT !.rc = 1]
            ELSE IF e.pSelect # 0
            THEN [h |-> [l.h EXCEPT !.hp[pExpr].iTable = l.P.nTab],
                  P |-> sqlite3Select([l.P EXCEPT !.nTab = @ + 1, !.nOp = @ + 1], e.pSelect).P,
                  rc |-> 0]
            ELSE IF e.pList # 0
            THEN Bind([c \in {InListLoop(l.h, l.P, l.h.hp[e.pList].a, 1)} |->
                   IF c.rc # 0 THEN c
                   ELSE [h |-> [c.h EXCEPT !.hp[pExpr].iTable = c.P.nSet],
                         P |-> [c.P EXCEPT !.nSet = @ + 1, !.nOp = @ + c.h.hp[e.pList].nExpr],
                         rc |-> 0]])
            ELSE l])
     ELSE IF e.op = "TK_SELECT"
     THEN Bind([s \in {sqlite3Select([P EXCEPT !.nMem = @ + 1], e.pSelect)} |->
            [h |-> [h EXCEPT !.hp[pExpr].iColumn = P.nMem], P |-> s.P,
             rc |-> IF s.rc # 0 THEN 1 ELSE 0]])
     ELSE Bind([l \in {sqlite3ExprResolveIds(h, P, pSrcList, pEList, e.pLeft)} |->
            IF l.rc # 0 THEN [l EXCEPT !.rc = 1]
            ELSE Bind([r \in {sqlite3ExprResolveIds(l.h, l.P, pSrcList, pEList, e.pRight)} |->
                   IF r.rc # 0 THEN [r EXCEPT !.rc = 1]
                   ELSE IF e.pList # 0
                   THEN Bind([a \in {ResolveListLoop(r.h, r.P, pSrcList, pEList,
                                                     r.h.hp[e.pList].a, 1)} |->
                          IF a.rc # 0 THEN [a EXCEPT !.rc = 1] ELSE a])
                   ELSE r])])])

\* appendAggInfo; the allocation succeeds
appendAggInfo(P) ==
  [P |-> [P EXCEPT !.aAgg = Append(@, [isAgg |-> 0, pExpr |-> 0, pFunc |-> NoFunc])],
   i |-> Len(P.aAgg)]

\* A search for the slot of a column that looks at the table only; the
\* slots are checked against it
RECURSIVE ColumnSlot_TableOnly(_, _, _, _)
ColumnSlot_TableOnly(h, aAgg, e, i) ==
  IF i >= Len(aAgg) THEN i
  ELSE IF aAgg[i + 1].isAgg # 0 THEN ColumnSlot_TableOnly(h, aAgg, e, i + 1)
  ELSE IF h.hp[aAgg[i + 1].pExpr].iTable = e.iTable THEN i
  ELSE ColumnSlot_TableOnly(h, aAgg, e, i + 1)

\* sqlite3ExprAnalyzeAggregates: the search for the slot of a column
RECURSIVE ColumnSlot(_, _, _, _)
ColumnSlot(h, aAgg, e, i) ==
  IF i >= Len(aAgg) THEN i
  ELSE IF aAgg[i + 1].isAgg # 0 THEN ColumnSlot(h, aAgg, e, i + 1)
  ELSE IF h.hp[aAgg[i + 1].pExpr].iTable = e.iTable /\ h.hp[aAgg[i + 1].pExpr].iColumn = e.iColumn
  THEN i
  ELSE ColumnSlot(h, aAgg, e, i + 1)

\* sqlite3ExprAnalyzeAggregates: the search for the slot of an aggregate
RECURSIVE FunctionSlot(_, _, _, _)
FunctionSlot(h, aAgg, pExpr, i) ==
  IF i >= Len(aAgg) THEN i
  ELSE IF aAgg[i + 1].isAgg = 0 THEN FunctionSlot(h, aAgg, pExpr, i + 1)
  ELSE IF sqlite3ExprCompare(h, aAgg[i + 1].pExpr, pExpr) THEN i
  ELSE FunctionSlot(h, aAgg, pExpr, i + 1)

RECURSIVE sqlite3ExprAnalyzeAggregates(_, _, _)
RECURSIVE AnalyzeListLoop(_, _, _, _)

\* sqlite3ExprAnalyzeAggregates: for(i=0; nErr==0 && i<n; i++) over the list
AnalyzeListLoop(r, pList, i, n) ==
  IF r.nErr # 0 \/ i >= n THEN r
  ELSE AnalyzeListLoop(sqlite3ExprAnalyzeAggregates(r.h, r.P, r.h.hp[pList].a[i + 1].pExpr),
                       pList, i + 1, n)

\* sqlite3ExprAnalyzeAggregates
sqlite3ExprAnalyzeAggregates(h, P, pExpr) ==
  IF pExpr = 0 THEN [h |-> h, P |-> P, nErr |-> 0]
  ELSE
   Bind([e \in {h.hp[pExpr]} |->
     IF e.op = "TK_COLUMN"
     THEN Bind([i \in {ColumnSlot(h, P.aAgg, e, 0)} |->
            [h |-> [h EXCEPT !.hp[pExpr].iAgg = i],
             P |-> IF i >= Len(P.aAgg)
                   THEN [appendAggInfo(P).P EXCEPT !.aAgg[i + 1].isAgg = 0,
                                                   !.aAgg[i + 1].pExpr = pExpr]
                   ELSE P,
             nErr |-> 0]])
     ELSE IF e.op = "TK_AGG_FUNCTION"
     THEN Bind([i \in {FunctionSlot(h, P.aAgg, pExpr, 0)} |->
            [h |-> [h EXCEPT !.hp[pExpr].iAgg = i],
             P |-> IF i >= Len(P.aAgg)
                   THEN [appendAggInfo(P).P EXCEPT
                           !.aAgg[i + 1].isAgg = 1,
                           !.aAgg[i + 1].pExpr = pExpr,
                           !.aAgg[i + 1].pFunc =
                              sqlite3FindFunction(e.token.z.s,
                                 IF e.pList # 0 THEN h.hp[e.pList].nExpr ELSE 0)]
                   ELSE P,
             nErr |-> 0]])
     ELSE Bind([l \in {IF e.pLeft # 0 THEN sqlite3ExprAnalyzeAggregates(h, P, e.pLeft)
                       ELSE [h |-> h, P |-> P, nErr |-> 0]} |->
            Bind([r \in {IF l.nErr = 0 /\ e.pRight # 0
                         THEN sqlite3ExprAnalyzeAggregates(l.h, l.P, e.pRight)
                         ELSE l} |->
              IF r.nErr = 0 /\ e.pList # 0
              THEN AnalyzeListLoop(r, e.pList, 0, r.h.hp[e.pList].nExpr)
              ELSE r])])])

\* The Vdbe under construction: the instructions aOp[0..nOp-1] and the label
\* table.  `by` is the node of the expression whose case of the emitter
\* added the instruction (0 for the caller's own instructions); nResolve
\* counts how many times sqlite3VdbeResolveLabel was called on each label.
VdbeZero == [aOp |-> <<>>, aLabel |-> <<>>, nResolve |-> <<>>]
NoP3 == [q |-> "", s |-> ""]
VdbeOp(opcode, p1, p2) == [opcode |-> opcode, p1 |-> p1, p2 |-> p2, p3 |-> NoP3, by |-> 0]

\* sqlite3VdbeAddOp: a label that is resolved already is replaced by its address
sqlite3VdbeAddOp(P, op, p1, p2) ==
  [P EXCEPT !.pVdbe.aOp =
     Append(@, VdbeOp(op, p1,
                      IF p2 < 0 /\ -p2 <= Len(P.pVdbe.aLabel) /\ P.pVdbe.aLabel[-p2] >= 0
                      THEN P.pVdbe.aLabel[-p2] ELSE p2))]

\* sqlite3VdbeCurrentAddr: the address of the next instruction to be added
sqlite3VdbeCurrentAddr(P) == Len(P.pVdbe.aOp)

\* sqlite3VdbeMakeLabel: the i-th label is the number -1-i
sqlite3VdbeMakeLabel(P) ==
  [P |-> [P EXCEPT !.pVdbe.aLabel = Append(@, -1), !.pVdbe.nResolve = Append(@, 0)],
   x |-> -1 - Len(P.pVdbe.aLabel)]

\* sqlite3VdbeResolveLabel: the label x is the address of the next
\* instruction; the instructions that jump to it are patched
sqlite3VdbeResolveLabel(P, x) ==
  IF x < 0 /\ -x <= Len(P.pVdbe.aLabel)
  THEN [P EXCEPT !.pVdbe.aLabel[-x] = Len(P.pVdbe.aOp),
                 !.pVdbe.nResolve[-x] = @ + 1,
                 !.pVdbe.aOp = [j \in DOMAIN @ |->
                                  IF @[j].p2 = x THEN [@[j] EXCEPT !.p2 = Len(P.pVdbe.aOp)]
                                  ELSE @[j]]]
  ELSE P

\* sqlite3VdbeChangeP2
sqlite3VdbeChangeP2(P, addr, val) ==
  IF addr >= 0 /\ addr < Len(P.pVdbe.aOp)
  THEN [P EXCEPT !.pVdbe.aOp[addr + 1].p2 = val]
  ELSE P

\* sqlite3VdbeChangeP3(v, -1, z, n): the text of the token, quotes included,
\* becomes P3 of the last instruction
sqlite3VdbeChangeP3(P, z) ==
  [P EXCEPT !.pVdbe.aOp[Len(P.pVdbe.aOp)].p3 = [q |-> z.q, s |-> z.s]]

\* sqlite3VdbeDequoteP3(v, -1): the quotes around P3 are removed
sqlite3VdbeDequoteP3(P) ==
  [P EXCEPT !.pVdbe.aOp[Len(P.pVdbe.aOp)].p3.q = ""]

\* sqlite3VdbeOp3
sqlite3VdbeOp3(P, op, p1, p2, zP3) ==
  [sqlite3VdbeAddOp(P, op, p1, p2) EXCEPT
     !.pVdbe.aOp[Len(P.pVdbe.aOp) + 1].p3 = [q |-> "", s |-> zP3]]

\* The instructions added since address `start` that no inner call owns
\* are those of the node pExpr
Own(P, start, pExpr) ==
  [P EXCEPT !.pVdbe.aOp = [j \in DOMAIN @ |->
                              IF j > start /\ @[j].by = 0 THEN [@[j] EXCEPT !.by = pExpr]
                              ELSE @[j]]]

\* sqlite3FitsIn32Bits: at most nine digits, or ten that do not exceed 2^31-1
sqlite3FitsIn32Bits(digits) == Len(digits) < 10 \/ digits \in {"2147483647", "1000000000"}

\* atoi() of the integer literals of the trees
atoi(s) ==
  CASE s = "0" -> 0 [] s = "1" -> 1 [] s = "2" -> 2 [] s = "4" -> 4
    [] s = "-1" -> -1 [] s = "-2" -> -2 [] s = "-4" -> -4
    [] OTHER -> 0

\* sqlite3ExprCode: the first switch
ValueOp(op) ==
  CASE op = "TK_PLUS" -> "OP_Add" [] op = "TK_MINUS" -> "OP_Subtract"
    [] op = "TK_STAR" -> "OP_Multiply" [] op = "TK_SLASH" -> "OP_Divide"
    [] op = "TK_AND" -> "OP_And" [] op = "TK_OR" -> "OP_Or"
    [] op = "TK_LT" -> "OP_Lt" [] op = "TK_LE" -> "OP_Le"
    [] op = "TK_GT" -> "OP_Gt" [] op = "TK_GE" -> "OP_Ge"
    [] op = "TK_NE" -> "OP_Ne" [] op = "TK_EQ" -> "OP_Eq"
    [] op = "TK_ISNULL" -> "OP_IsNull" [] op = "TK_NOTNULL" -> "OP_NotNull"
    [] op = "TK_NOT" -> "OP_Not" [] op = "TK_UMINUS" -> "OP_Negative"
    [] op = "TK_BITAND" -> "OP_BitAnd" [] op = "TK_BITOR" -> "OP_BitOr"
    [] op = "TK_BITNOT" -> "OP_BitNot" [] op = "TK_LSHIFT" -> "OP_ShiftLeft"
    [] op = "TK_RSHIFT" -> "OP_ShiftRight" [] op = "TK_REM" -> "OP_Remainder"
    [] OTHER -> "0"

\* op += 6: the text comparison that goes with a numeric comparison
TextCompare(op) ==
  CASE op = "OP_Eq" -> "OP_StrEq" [] op = "OP_Ne" -> "OP_StrNe"
    [] op = "OP_Lt" -> "OP_StrLt" [] op = "OP_Le" -> "OP_StrLe"
    [] op = "OP_Gt" -> "OP_StrGt" [] op = "OP_Ge" -> "OP_StrGe"

\* if( pParse->db->file_format>=4 && sqlite3ExprType(pExpr)==SQLITE_SO_TEXT ) op += 6
CompareOp(h, P, pExpr, op) ==
  IF P.file_format >= 4 /\ sqlite3ExprType(h, pExpr) = SQLITE_SO_TEXT
  THEN TextCompare(op) ELSE op

RECURSIVE sqlite3ExprCode(_, _, _)
RECURSIVE sqlite3ExprCodeExprList(_, _, _, _)
RECURSIVE CodeCaseLoop(_, _, _, _, _)
RECURSIVE CodeListLoop(_, _, _, _, _)

\* A BETWEEN whose operand is evaluated once more for the upper bound; the
\* code of BETWEEN is checked against it
CodeBetween_OperandTwice(h, P, e) ==
  sqlite3VdbeAddOp(
    sqlite3VdbeAddOp(
      sqlite3ExprCode(h,
        sqlite3ExprCode(h,
          sqlite3VdbeAddOp(
            sqlite3ExprCode(h, sqlite3ExprCode(h, P, e.pLeft), h.hp[e.pList].a[1].pExpr),
            "OP_Ge", 0, 0),
          e.pLeft),
        h.hp[e.pList].a[2].pExpr),
      "OP_Le", 0, 0),
    "OP_And", 0, 0)

\* sqlite3ExprCode, case TK_BETWEEN
CodeBetween(h, P, e) ==
  sqlite3VdbeAddOp(
    sqlite3VdbeAddOp(
      sqlite3ExprCode(h,
        sqlite3VdbeAddOp(
          sqlite3VdbeAddOp(
            sqlite3ExprCode(h,
              sqlite3VdbeAddOp(sqlite3ExprCode(h, P, e.pLeft), "OP_Dup", 0, 0),
              h.hp[e.pList].a[1].pExpr),
            "OP_Ge", 0, 0),
          "OP_Pull", 1, 0),
        h.hp[e.pList].a[2].pExpr),
      "OP_Le", 0, 0),
    "OP_And", 0, 0)

\* sqlite3ExprCode, case TK_CASE: the WHEN/THEN pair at a[i], a[i+1]
CodeCaseLoop(h, P, e, i, end) ==
  IF i >= h.hp[e.pList].nExpr THEN P
  ELSE
   Bind([w \in {sqlite3ExprCode(h, P, h.hp[e.pList].a[i + 1].pExpr)} |->
   Bind([jumpInst \in {IF e.pLeft # 0 THEN sqlite3VdbeCurrentAddr(w) + 1
                       ELSE sqlite3VdbeCurrentAddr(w)} |->
   Bind([t \in {IF e.pLeft # 0
                THEN sqlite3VdbeAddOp(
                       sqlite3VdbeAddOp(sqlite3VdbeAddOp(w, "OP_Dup", 1, 1), "OP_Ne", 1, 0),
                       "OP_Pop", 1, 0)
                ELSE sqlite3VdbeAddOp(w, "OP_IfNot", 1, 0)} |->
   Bind([g \in {sqlite3VdbeAddOp(sqlite3ExprCode(h, t, h.hp[e.pList].a[i + 2].pExpr),
                                 "OP_Goto", 0, end)} |->
     CodeCaseLoop(h, sqlite3VdbeChangeP2(g, jumpInst, sqlite3VdbeCurrentAddr(g)),
                  e, i + 2, end)])])])])

\* A faulty case TK_CASE that leaves the base expression on the stack when no
\* WHEN matches; the depth of the stack is checked against it
CodeCase_BaseLeft(h, P, e) ==
  Bind([l \in {sqlite3VdbeMakeLabel(P)} |->
  Bind([b \in {IF e.pLeft # 0 THEN sqlite3ExprCode(h, l.P, e.pLeft) ELSE l.P} |->
  Bind([c \in {CodeCaseLoop(h, b, e, 0, l.x)} |->
    sqlite3VdbeResolveLabel(
      IF e.pRight # 0 THEN sqlite3ExprCode(h, c, e.pRight)
      ELSE sqlite3VdbeAddOp(c, "OP_String", 0, 0),
      l.x)])])])

\* sqlite3ExprCode, case TK_CASE
CodeCase(h, P, e) ==
  Bind([l \in {sqlite3VdbeMakeLabel(P)} |->
  Bind([b \in {IF e.pLeft # 0 THEN sqlite3ExprCode(h, l.P, e.pLeft) ELSE l.P} |->
  Bind([c \in {CodeCaseLoop(h, b, e, 0, l.x)} |->
  Bind([p \in {IF e.pLeft # 0 THEN sqlite3VdbeAddOp(c, "OP_Pop", 1, 0) ELSE c} |->
    sqlite3VdbeResolveLabel(
      IF e.pRight # 0 THEN sqlite3ExprCode(h, p, e.pRight)
      ELSE sqlite3VdbeAddOp(p, "OP_String", 0, 0),
      l.x)])])])])

\* A faulty case TK_IN whose OP_Goto for a NULL left operand jumps one
\* instruction too far; the jump targets are checked against it
CodeIn_PastEnd(h, P, e) ==
  Bind([l \in {sqlite3ExprCode(h, sqlite3VdbeAddOp(P, "OP_Integer", 1, 0), e.pLeft)} |->
  Bind([addr \in {sqlite3VdbeCurrentAddr(l)} |->
    sqlite3VdbeAddOp(
      sqlite3VdbeAddOp(
        sqlite3VdbeAddOp(
          sqlite3VdbeAddOp(
            sqlite3VdbeAddOp(
              sqlite3VdbeAddOp(l, "OP_NotNull", -1, addr + 4),
              "OP_Pop", 2, 0),
            "OP_String", 0, 0),
          "OP_Goto", 0, addr + 7),
        IF e.pSelect # 0 THEN "OP_Found" ELSE "OP_SetFound", e.iTable, addr + 6),
      "OP_AddImm", -1, 0)])])

\* sqlite3ExprCode, case TK_IN
CodeIn(h, P, e) ==
  Bind([l \in {sqlite3ExprCode(h, sqlite3VdbeAddOp(P, "OP_Integer", 1, 0), e.pLeft)} |->
  Bind([addr \in {sqlite3VdbeCurrentAddr(l)} |->
    sqlite3VdbeAddOp(
      sqlite3VdbeAddOp(
        sqlite3VdbeAddOp(
          sqlite3VdbeAddOp(
            sqlite3VdbeAddOp(
              sqlite3VdbeAddOp(l, "OP_NotNull", -1, addr + 4),
              "OP_Pop", 2, 0),
            "OP_String", 0, 0),
          "OP_Goto", 0, addr + 6),
        IF e.pSelect # 0 THEN "OP_Found" ELSE "OP_SetFound", e.iTable, addr + 6),
      "OP_AddImm", -1, 0)])])

\* sqlite3ExprCode, the second switch
CodeOf(h, P, pExpr, e) ==
  IF e.op = "TK_COLUMN"
  THEN IF P.useAgg # 0 THEN sqlite3VdbeAddOp(P, "OP_AggGet", 0, e.iAgg)
       ELSE IF e.iColumn >= 0 THEN sqlite3VdbeAddOp(P, "OP_Column", e.iTable, e.iColumn)
       ELSE sqlite3VdbeAddOp(P, "OP_Recno", e.iTable, 0)
  ELSE IF e.op \in {"TK_STRING", "TK_FLOAT", "TK_INTEGER"}
  THEN sqlite3VdbeDequoteP3(sqlite3VdbeChangeP3(
         IF e.op = "TK_INTEGER" /\ sqlite3FitsIn32Bits(e.token.z.s)
         THEN sqlite3VdbeAddOp(P, "OP_Integer", atoi(e.token.z.s), 0)
         ELSE sqlite3VdbeAddOp(P, "OP_String", 0, 0),
         e.token.z))
  ELSE IF e.op = "TK_NULL" THEN sqlite3VdbeAddOp(P, "OP_String", 0, 0)
  ELSE IF e.op = "TK_VARIABLE" THEN sqlite3VdbeAddOp(P, "OP_Variable", e.iTable, 0)
  ELSE IF e.op \in CompareOps
  THEN Bind([op \in {CompareOp(h, P, pExpr, ValueOp(e.op))} |->
         sqlite3VdbeAddOp(sqlite3ExprCode(h, sqlite3ExprCode(h, P, e.pLeft), e.pRight),
                          op, 0, 0)])
  ELSE IF e.op \in {"TK_AND", "TK_OR", "TK_PLUS", "TK_STAR", "TK_MINUS", "TK_REM",
                    "TK_BITAND", "TK_BITOR", "TK_SLASH"}
  THEN sqlite3VdbeAddOp(sqlite3ExprCode(h, sqlite3ExprCode(h, P, e.pLeft), e.pRight),
                        ValueOp(e.op), 0, 0)
  ELSE IF e.op \in {"TK_LSHIFT", "TK_RSHIFT"}
  THEN sqlite3VdbeAddOp(sqlite3ExprCode(h, sqlite3ExprCode(h, P, e.pRight), e.pLeft),
                        ValueOp(e.op), 0, 0)
  ELSE IF e.op = "TK_CONCAT"
  THEN sqlite3VdbeAddOp(sqlite3ExprCode(h, sqlite3ExprCode(h, P, e.pLeft), e.pRight),
                        "OP_Concat", 2, 0)
  ELSE IF e.op = "TK_UMINUS" /\ h.hp[e.pLeft].op \in {"TK_FLOAT", "TK_INTEGER"}
  THEN \* z = "-" followed by the token; z is freed again before the return
       sqlite3VdbeChangeP3(
         IF h.hp[e.pLeft].op = "TK_INTEGER" /\ sqlite3FitsIn32Bits(h.hp[e.pLeft].token.z.s)
         THEN sqlite3VdbeAddOp(P, "OP_Integer", atoi("-" \o h.hp[e.pLeft].token.z.s), 0)
         ELSE sqlite3VdbeAddOp(P, "OP_String", 0, 0),
         [q |-> "", s |-> "-" \o h.hp[e.pLeft].token.z.s])
  ELSE IF e.op \in {"TK_UMINUS", "TK_BITNOT", "TK_NOT"}
  THEN sqlite3VdbeAddOp(sqlite3ExprCode(h, P, e.pLeft), ValueOp(e.op), 0, 0)
  ELSE IF e.op \in {"TK_ISNULL", "TK_NOTNULL"}
  THEN Bind([l \in {sqlite3ExprCode(h, sqlite3VdbeAddOp(P, "OP_Integer", 1, 0), e.pLeft)} |->
         sqlite3VdbeAddOp(
           sqlite3VdbeAddOp(l, ValueOp(e.op), 1, sqlite3VdbeCurrentAddr(l) + 2),
           "OP_AddImm", -1, 0)])
  ELSE IF e.op = "TK_AGG_FUNCTION" THEN sqlite3VdbeAddOp(P, "OP_AggGet", 0, e.iAgg)
  ELSE IF e.op \in {"TK_GLOB", "TK_LIKE", "TK_FUNCTION"}
  THEN Bind([pDef \in {sqlite3FindFunction(getFunctionName(e),
                          IF e.pList # 0 THEN h.hp[e.pList].nExpr ELSE 0)} |->
         \* no function of the table asks for the types of its arguments
         Bind([l \in {sqlite3ExprCodeExprList(h, P, e.pList, 0)} |->
           sqlite3VdbeOp3(l.P, "OP_Function", l.n, 0, pDef.zName)])])
  ELSE IF e.op = "TK_SELECT" THEN sqlite3VdbeAddOp(P, "OP_MemLoad", e.iColumn, 0)
  ELSE IF e.op = "TK_IN" THEN CodeIn(h, P, e)
  ELSE IF e.op = "TK_BETWEEN" THEN CodeBetween(h, P, e)
  ELSE IF e.op \in {"TK_UPLUS", "TK_AS"} THEN sqlite3ExprCode(h, P, e.pLeft)
  ELSE IF e.op = "TK_CASE" THEN CodeCase(h, P, e)
  ELSE IF e.op = "TK_RAISE" /\ P.trigStack = 0
  THEN [sqlite3ErrorMsg(P, "RAISE() may only be used within a trigger-program",
                        Qualified("", "", ""))
          EXCEPT !.nErr = @ + 1]
  ELSE P    \* no statement of the model is inside a trigger

\* sqlite3ExprCode
sqlite3ExprCode(h, P, pExpr) ==
  IF pExpr = 0 THEN P
  ELSE Own(CodeOf(h, P, pExpr, h.hp[pExpr]), Len(P.pVdbe.aOp), pExpr)

\* sqlite3ExprCodeExprList: for(i=0; i<n; i++)
CodeListLoop(h, P, pList, i, includeTypes) ==
  IF i >= h.hp[pList].nExpr THEN P
  ELSE
   Bind([c \in {sqlite3ExprCode(h, P, h.hp[pList].a[i + 1].pExpr)} |->
     CodeListLoop(h,
       IF includeTypes # 0
       THEN sqlite3VdbeOp3(c, "OP_String", 0, 0,
              IF sqlite3ExprType(h, h.hp[pList].a[i + 1].pExpr) = SQLITE_SO_NUM
              THEN "numeric" ELSE "text")
       ELSE c,
       pList, i + 1, includeTypes)])

\* sqlite3ExprCodeExprList
sqlite3ExprCodeExprList(h, P, pList, includeTypes) ==
  IF pList = 0 THEN [P |-> P, n |-> 0]
  ELSE [P |-> CodeListLoop(h, P, pList, 0, includeTypes),
        n |-> IF includeTypes # 0 THEN h.hp[pList].nExpr * 2 ELSE h.hp[pList].nExpr]

\* !jumpIfNull
LogicalNot(x) == IF x = 0 THEN 1 ELSE 0

\* sqlite3ExprIfTrue, sqlite3ExprIfFalse: the first switch
JumpOp(op) ==
  CASE op = "TK_LT" -> "OP_Lt" [] op = "TK_LE" -> "OP_Le"
    [] op = "TK_GT" -> "OP_Gt" [] op = "TK_GE" -> "OP_Ge"
    [] op = "TK_NE" -> "OP_Ne" [] op = "TK_EQ" -> "OP_Eq"
    [] op = "TK_ISNULL" -> "OP_IsNull" [] op = "TK_NOTNULL" -> "OP_NotNull"
    [] OTHER -> "0"
InverseJumpOp(op) ==
  CASE op = "TK_LT" -> "OP_Ge" [] op = "TK_LE" -> "OP_Gt"
    [] op = "TK_GT" -> "OP_Le" [] op = "TK_GE" -> "OP_Lt"
    [] op = "TK_NE" -> "OP_Eq" [] op = "TK_EQ" -> "OP_Ne"
    [] op = "TK_ISNULL" -> "OP_NotNull" [] op = "TK_NOTNULL" -> "OP_IsNull"
    [] OTHER -> "0"

RECURSIVE sqlite3ExprIfTrue(_, _, _, _, _)
RECURSIVE sqlite3ExprIfFalse(_, _, _, _, _)

\* A branch emitter that evaluates the whole expression and tests the value;
\* the short circuit of AND and OR is checked against it
sqlite3ExprIfTrue_ValueForm(h, P, pExpr, dest, jumpIfNull) ==
  IF pExpr = 0 THEN P
  ELSE Own(sqlite3VdbeAddOp(sqlite3ExprCode(h, P, pExpr), "OP_If", jumpIfNull, dest),
           Len(P.pVdbe.aOp), pExpr)

\* sqlite3ExprIfTrue, sqlite3ExprIfFalse: case TK_IN
BranchIn(h, P, e, dest, jumpIfNull, found) ==
  Bind([l \in {sqlite3ExprCode(h, P, e.pLeft)} |->
  Bind([addr \in {sqlite3VdbeCurrentAddr(l)} |->
    sqlite3VdbeAddOp(
      sqlite3VdbeAddOp(
        sqlite3VdbeAddOp(
          sqlite3VdbeAddOp(l, "OP_NotNull", -1, addr + 3),
          "OP_Pop", 1, 0),
        "OP_Goto", 0, IF jumpIfNull # 0 THEN dest ELSE addr + 4),
      found, e.iTable, dest)])])

\* sqlite3ExprIfTrue, the second switch
IfTrueOf(h, P, pExpr, e, dest, jumpIfNull) ==
  IF e.op = "TK_AND"
  THEN Bind([d2 \in {sqlite3VdbeMakeLabel(P)} |->
         sqlite3VdbeResolveLabel(
           sqlite3ExprIfTrue(h,
             sqlite3ExprIfFalse(h, d2.P, e.pLeft, d2.x, LogicalNot(jumpIfNull)),
             e.pRight, dest, jumpIfNull),
           d2.x)])
  ELSE IF e.op = "TK_OR"
  THEN sqlite3ExprIfTrue(h, sqlite3ExprIfTrue(h, P, e.pLeft, dest, jumpIfNull),
                         e.pRight, dest, jumpIfNull)
  ELSE IF e.op = "TK_NOT" THEN sqlite3ExprIfFalse(h, P, e.pLeft, dest, jumpIfNull)
  ELSE IF e.op \in CompareOps
  THEN sqlite3VdbeAddOp(sqlite3ExprCode(h, sqlite3ExprCode(h, P, e.pLeft), e.pRight),
                        CompareOp(h, P, pExpr, JumpOp(e.op)), jumpIfNull, dest)
  ELSE IF e.op \in {"TK_ISNULL", "TK_NOTNULL"}
  THEN sqlite3VdbeAddOp(sqlite3ExprCode(h, P, e.pLeft), JumpOp(e.op), 1, dest)
  ELSE IF e.op = "TK_IN"
  THEN BranchIn(h, P, e, dest, jumpIfNull,
                IF e.pSelect # 0 THEN "OP_Found" ELSE "OP_SetFound")
  ELSE IF e.op = "TK_BETWEEN"
  THEN Bind([lo \in {sqlite3ExprCode(h,
                       sqlite3VdbeAddOp(sqlite3ExprCode(h, P, e.pLeft), "OP_Dup", 0, 0),
                       h.hp[e.pList].a[1].pExpr)} |->
       Bind([addr \in {sqlite3VdbeCurrentAddr(lo)} |->
       Bind([hi \in {sqlite3VdbeAddOp(
                       sqlite3VdbeAddOp(
                         sqlite3ExprCode(h,
                           sqlite3VdbeAddOp(lo, "OP_Lt", LogicalNot(jumpIfNull), 0),
                           h.hp[e.pList].a[2].pExpr),
                         "OP_Le", jumpIfNull, dest),
                       "OP_Integer", 0, 0)} |->
         sqlite3VdbeAddOp(sqlite3VdbeChangeP2(hi, addr, sqlite3VdbeCurrentAddr(hi)),
                          "OP_Pop", 1, 0)])])])
  ELSE sqlite3VdbeAddOp(sqlite3ExprCode(h, P, pExpr), "OP_If", jumpIfNull, dest)

\* A faulty sqlite3ExprIfTrue that hands jumpIfNull unchanged to the left
\* operand of AND; the jumps under three-valued logic are checked against it
sqlite3ExprIfTrue_SameNullFlag(h, P, pExpr, dest, jumpIfNull) ==
  IF pExpr = 0 THEN P
  ELSE IF h.hp[pExpr].op = "TK_AND"
  THEN Own(Bind([d2 \in {sqlite3VdbeMakeLabel(P)} |->
             sqlite3VdbeResolveLabel(
               sqlite3ExprIfTrue(h,
                 sqlite3ExprIfFalse(h, d2.P, h.hp[pExpr].pLeft, d2.x, jumpIfNull),
                 h.hp[pExpr].pRight, dest, jumpIfNull),
               d2.x)]),
           Len(P.pVdbe.aOp), pExpr)
  ELSE Own(IfTrueOf(h, P, pExpr, h.hp[pExpr], dest, jumpIfNull), Len(P.pVdbe.aOp), pExpr)

\* sqlite3ExprIfTrue
sqlite3ExprIfTrue(h, P, pExpr, dest, jumpIfNull) ==
  IF pExpr = 0 THEN P
  ELSE Own(IfTrueOf(h, P, pExpr, h.hp[pExpr], dest, jumpIfNull), Len(P.pVdbe.aOp), pExpr)

\* sqlite3ExprIfFalse, the second switch
IfFalseOf(h, P, pExpr, e, dest, jumpIfNull) ==
  IF e.op = "TK_AND"
  THEN sqlite3ExprIfFalse(h, sqlite3ExprIfFalse(h, P, e.pLeft, dest, jumpIfNull),
                          e.pRight, dest, jumpIfNull)
  ELSE IF e.op = "TK_OR"
  THEN Bind([d2 \in {sqlite3VdbeMakeLabel(P)} |->
         sqlite3VdbeResolveLabel(
           sqlite3ExprIfFalse(h,
             sqlite3ExprIfTrue(h, d2.P, e.pLeft, d2.x, LogicalNot(jumpIfNull)),
             e.pRight, dest, jumpIfNull),
           d2.x)])
  ELSE IF e.op = "TK_NOT" THEN sqlite3ExprIfTrue(h, P, e.pLeft, dest, jumpIfNull)
  ELSE IF e.op \in CompareOps
  THEN sqlite3VdbeAddOp(sqlite3ExprCode(h, sqlite3ExprCode(h, P, e.pLeft), e.pRight),
                        CompareOp(h, P, pExpr, InverseJumpOp(e.op)), jumpIfNull, dest)
  ELSE IF e.op \in {"TK_ISNULL", "TK_NOTNULL"}
  THEN sqlite3VdbeAddOp(sqlite3ExprCode(h, P, e.pLeft), InverseJumpOp(e.op), 1, dest)
  ELSE IF e.op = "TK_IN"
  THEN BranchIn(h, P, e, dest, jumpIfNull,
                IF e.pSelect # 0 THEN "OP_NotFound" ELSE "OP_SetNotFound")
  ELSE IF e.op = "TK_BETWEEN"
  THEN Bind([lo \in {sqlite3ExprCode(h,
                       sqlite3VdbeAddOp(sqlite3ExprCode(h, P, e.pLeft), "OP_Dup", 0, 0),
                       h.hp[e.pList].a[1].pExpr)} |->
       Bind([addr \in {sqlite3VdbeCurrentAddr(lo)} |->
         sqlite3VdbeAddOp(
           sqlite3ExprCode(h,
             sqlite3VdbeAddOp(
               sqlite3VdbeAddOp(
                 sqlite3VdbeAddOp(lo, "OP_Ge", LogicalNot(jumpIfNull), addr + 3),
                 "OP_Pop", 1, 0),
               "OP_Goto", 0, dest),
             h.hp[e.pList].a[2].pExpr),
           "OP_Gt", jumpIfNull, dest)])])
  ELSE sqlite3VdbeAddOp(sqlite3ExprCode(h, P, pExpr), "OP_IfNot", jumpIfNull, dest)

\* sqlite3ExprIfFalse
sqlite3ExprIfFalse(h, P, pExpr, dest, jumpIfNull) ==
  IF pExpr = 0 THEN P
  ELSE Own(IfFalseOf(h, P, pExpr, h.hp[pExpr], dest, jumpIfNull), Len(P.pVdbe.aOp), pExpr)

\* The trees the parser builds, written as terms
NoTree == [k |-> "nil"]
Leaf(op, tok) == [k |-> "leaf", op |-> op, tok |-> tok]
Bin(op, l, r) == [k |-> "bin", op |-> op, l |-> l, r |-> r]
Func(tok, args) == [k |-> "fn", tok |-> tok, args |-> args]
InList(l, args) == [k |-> "in", l |-> l, args |-> args]
InSelect(l, sel) == [k |-> "insel", l |-> l, sel |-> sel]
ScalarSelect(sel) == [k |-> "sel", sel |-> sel]
Item(e) == [e |-> e, as |-> NoToken]
ItemAs(e, as) == [e |-> e, as |-> as]
SelectOf(elist, where) == [elist |-> elist, where |-> where]
Case(base, pairs, else) == [k |-> "case", base |-> base, pairs |-> pairs, else |-> else]
Between(l, lo, hi) == [k |-> "btw", l |-> l, lo |-> lo, hi |-> hi]
Like(op, l, r) == [k |-> "like", op |-> op, l |-> l, r |-> r]

RECURSIVE Build(_, _), BuildList(_, _, _, _), BuildSelect(_, _)

\* The parser's calls of sqlite3Expr, sqlite3ExprFunction and
\* sqlite3ExprListAppend for the term t
Build(h, t) ==
  IF t.k = "nil" THEN [h |-> h, p |-> 0]
  ELSE IF t.k = "leaf" THEN sqlite3Expr(h, t.op, 0, 0, t.tok)
  ELSE IF t.k = "bin"
  THEN Bind([l \in {Build(h, t.l)} |->
          Bind([r \in {Build(l.h, t.r)} |->
            sqlite3Expr(r.h, t.op, l.p, r.p, NoToken)])])
  ELSE IF t.k = "fn"
  THEN Bind([li \in {BuildList(h, t.args, 1, 0)} |->
          sqlite3ExprFunction(li.h, li.p, t.tok)])
  ELSE IF t.k = "in"
  THEN Bind([l \in {Build(h, t.l)} |->
          Bind([li \in {BuildList(l.h, t.args, 1, 0)} |->
          Bind([n \in {sqlite3Expr(li.h, "TK_IN", l.p, 0, NoToken)} |->
            [h |-> [n.h EXCEPT !.hp[n.p].pList = li.p], p |-> n.p]])])])
  ELSE IF t.k = "insel"
  THEN Bind([l \in {Build(h, t.l)} |->
          Bind([se \in {BuildSelect(l.h, t.sel)} |->
          Bind([n \in {sqlite3Expr(se.h, "TK_IN", l.p, 0, NoToken)} |->
            [h |-> [n.h EXCEPT !.hp[n.p].pSelect = se.p], p |-> n.p]])])])
  ELSE IF t.k = "case"
  THEN Bind([l \in {Build(h, t.base)} |->
          Bind([li \in {BuildList(l.h, t.pairs, 1, 0)} |->
          Bind([r \in {Build(li.h, t.else)} |->
          Bind([n \in {sqlite3Expr(r.h, "TK_CASE", l.p, r.p, NoToken)} |->
            [h |-> [n.h EXCEPT !.hp[n.p].pList = li.p], p |-> n.p]])])])])
  ELSE IF t.k = "btw"
  THEN Bind([l \in {Build(h, t.l)} |->
          Bind([li \in {BuildList(l.h, <<[e |-> t.lo, as |-> NoToken],
                                         [e |-> t.hi, as |-> NoToken]>>, 1, 0)} |->
          Bind([n \in {sqlite3Expr(li.h, "TK_BETWEEN", l.p, 0, NoToken)} |->
            [h |-> [n.h EXCEPT !.hp[n.p].pList = li.p], p |-> n.p]])])])
  ELSE IF t.k = "like"
  THEN Bind([li \in {BuildList(h, <<[e |-> t.r, as |-> NoToken],
                                    [e |-> t.l, as |-> NoToken]>>, 1, 0)} |->
          Bind([n \in {sqlite3ExprFunction(li.h, li.p, NoToken)} |->
            [h |-> [n.h EXCEPT !.hp[n.p].op = t.op], p |-> n.p]])])
  ELSE Bind([se \in {BuildSelect(h, t.sel)} |->
          Bind([n \in {sqlite3Expr(se.h, "TK_SELECT", 0, 0, NoToken)} |->
            [h |-> [n.h EXCEPT !.hp[n.p].pSelect = se.p], p |-> n.p]])])

BuildList(h, args, i, pList) ==
  IF i > Len(args) THEN [h |-> h, p |-> pList]
  ELSE Bind([e \in {Build(h, args[i].e)} |->
          Bind([li \in {sqlite3ExprListAppend(e.h, pList, e.p, args[i].as)} |->
            BuildList(li.h, args, i + 1, li.p)])])

BuildSelect(h, sel) ==
   Bind([el \in {BuildList(h, sel.elist, 1, 0)} |->
      Bind([w \in {Build(el.h, sel.where)} |->
        sqliteMalloc(w.h, [t |-> "select", pEList |-> el.p, pWhere |-> w.p])])])

\* The statements' tokens: a is a column of t1, b of t2, x of both; al names
\* a result column; zz is no name at all
TkInt == Tok(2, "", "1", 1)
TkStr == Tok(4, "'", "v", 3)
TkA == Tok(8, "", "a", 1)
TkB == Tok(10, "", "b", 1)
TkX == Tok(12, "", "x", 1)
TkT1 == Tok(14, "", "t1", 2)
ExprTrees ==
  { Leaf("TK_INTEGER", TkInt),
    Leaf("TK_STRING", TkStr),
    Leaf("TK_ID", TkA),
    Leaf("TK_ID", Tok(8, "", "A", 1)),
    Leaf("TK_ID", TkX),
    Leaf("TK_ID", Tok(8, "", "zz", 2)),
    Leaf("TK_ID", Tok(8, "", "al", 2)),
    Leaf("TK_ID", Tok(8, "", "rowid", 5)),
    Leaf("TK_STRING", Tok(8, "\"", "zz", 4)),
    Leaf("TK_STRING", Tok(8, "\"", "b", 3)),
    Bin("TK_PLUS", Leaf("TK_ID", TkA), Leaf("TK_INTEGER", Tok(10, "", "1", 1))),
    Bin("TK_EQ", Leaf("TK_ID", Tok(8, "", "X", 1)), Leaf("TK_INTEGER", Tok(10, "", "1", 1))),
    Bin("TK_DOT", Leaf("TK_ID", TkT1), Leaf("TK_ID", Tok(17, "", "x", 1))),
    Bin("TK_DOT", Leaf("TK_ID", TkT1), Leaf("TK_ID", Tok(17, "", "rowid", 5))),
    Func(Tok(0, "", "f", 1), <<Item(Leaf("TK_ID", TkA)), Item(Leaf("TK_STRING", TkStr))>>),
    InList(Leaf("TK_ID", TkA), <<Item(Leaf("TK_INTEGER", TkInt)), Item(Leaf("TK_STRING", TkStr))>>),
    InList(Leaf("TK_ID", TkA), <<Item(Leaf("TK_ID", TkB))>>),
    InList(Leaf("TK_ID", TkA),
           <<Item(InList(Leaf("TK_INTEGER", TkInt), <<Item(Leaf("TK_INTEGER", Tok(20, "", "2", 1)))>>))>>),
    Bin("TK_AND",
        InList(Leaf("TK_ID", TkA), <<Item(Leaf("TK_INTEGER", TkInt))>>),
        InList(Leaf("TK_ID", TkB), <<Item(Leaf("TK_STRING", TkStr)), Item(Leaf("TK_INTEGER", TkInt))>>)),
    InSelect(Leaf("TK_ID", TkA), SelectOf(<<Item(Leaf("TK_ID", TkB))>>, NoTree)),
    ScalarSelect(SelectOf(<<ItemAs(Leaf("TK_ID", TkB), Tok(12, "", "k", 1))>>,
                          Bin("TK_EQ", Leaf("TK_ID", TkB), Leaf("TK_INTEGER", TkInt)))),
    Bin("TK_AND",
        Bin("TK_EQ", Leaf("TK_ID", TkA),
            ScalarSelect(SelectOf(<<Item(Leaf("TK_ID", TkB))>>, NoTree))),
        Leaf("TK_ID", Tok(30, "", "al", 2))) }

\* What the statement being compiled holds: the heap, the Parse context P,
\* the result columns E of the statement (0: none), the tree T the parser
\* built, its copy C (0: none), which of them have been deleted, the result
\* of the last sqlite3ExprCompare (-1: none), the result of the last
\* sqlite3ExprResolveIds (-1: none) and the number of its runs on T, the
\* result of sqlite3ExprCheck on T (-1: none) with its *pIsAgg, and the last
\* result of sqlite3ExprType with the number of its calls
\* a value on the stack of the VDBE
VNull == [flags |-> MEM_Null, i |-> 0]
VInt(i) == [flags |-> MEM_Int, i |-> i]

\* the current rows: the value of t1.a and the rowid b of t2
Rows == {[a |-> va, b |-> vb] : va \in {VNull, VInt(0), VInt(1)}, vb \in {VInt(0), VInt(1)}}

VmZero == [pc |-> 0, stack |-> <<>>, env |-> [a |-> VNull, b |-> VInt(0)], st |-> "none",
           p1 |-> 0, ran |-> {}, base |-> 0, hit |-> FALSE]

\* what is on the stack when the code of an expression starts: nothing, or a
\* value of the code around it
Marker == VInt(7)
Below == {<<>>, <<Marker>>}

\* the opcodes that look a key up in a set or in an index; vm.hit says
\* whether the key is there
Lookups == {"OP_Found", "OP_NotFound", "OP_SetFound", "OP_SetNotFound"}

\* the stack without its top n elements, and its element i below the top
Popped(stack, n) == SubSeq(stack, 1, Len(stack) - n)
Tos(stack, i) == stack[Len(stack) - i]

\* the opcodes that the machine of the model executes
Executable ==
  {"OP_Integer", "OP_String", "OP_Column", "OP_Recno", "OP_Dup", "OP_Pull", "OP_Pop",
   "OP_Eq", "OP_Ne", "OP_Lt", "OP_Le", "OP_Gt", "OP_Ge", "OP_And", "OP_Or", "OP_Not",
   "OP_If", "OP_IfNot", "OP_IsNull", "OP_NotNull", "OP_AddImm", "OP_Goto", "OP_Halt",
   "OP_Found", "OP_NotFound", "OP_SetFound", "OP_SetNotFound"}

\* OP_Eq .. OP_Ge on two integers
Compares(op, l, r) ==
  CASE op = "OP_Eq" -> l = r [] op = "OP_Ne" -> l # r
    [] op = "OP_Lt" -> l < r [] op = "OP_Le" -> l <= r
    [] op = "OP_Gt" -> l > r [] op = "OP_Ge" -> l >= r

\* OP_And, OP_Or: 0 is false, 1 is true, 2 is NULL
Truth(v) == IF v.flags = MEM_Null THEN 2 ELSE IF v.i # 0 THEN 1 ELSE 0
AndOf(l, r) == IF l = 0 \/ r = 0 THEN 0 ELSE IF l = 2 \/ r = 2 THEN 2 ELSE 1
OrOf(l, r) == IF l = 1 \/ r = 1 THEN 1 ELSE IF l = 2 \/ r = 2 THEN 2 ELSE 0
OfTruth(t) == IF t = 2 THEN VNull ELSE VInt(t)

Jump(vm, taken, p2, stack) ==
  [vm EXCEPT !.pc = IF taken THEN p2 ELSE vm.pc + 1, !.stack = stack]

\* One instruction of the VDBE
VdbeExec(vm, op) ==
  IF op.opcode = "OP_Integer" THEN Jump(vm, FALSE, 0, Append(vm.stack, VInt(op.p1)))
  ELSE IF op.opcode = "OP_String" THEN Jump(vm, FALSE, 0, Append(vm.stack, VNull))
  ELSE IF op.opcode = "OP_Column" THEN Jump(vm, FALSE, 0, Append(vm.stack, vm.env.a))
  ELSE IF op.opcode = "OP_Recno" THEN Jump(vm, FALSE, 0, Append(vm.stack, vm.env.b))
  ELSE IF op.opcode = "OP_Dup"
  THEN Jump(vm, FALSE, 0, Append(vm.stack, Tos(vm.stack, op.p1)))
  ELSE IF op.opcode = "OP_Pull"
  THEN Jump(vm, FALSE, 0,
            Append(SubSeq(vm.stack, 1, Len(vm.stack) - op.p1 - 1)
                     \o SubSeq(vm.stack, Len(vm.stack) - op.p1 + 1, Len(vm.stack)),
                   Tos(vm.stack, op.p1)))
  ELSE IF op.opcode = "OP_Pop" THEN Jump(vm, FALSE, 0, Popped(vm.stack, op.p1))
  ELSE IF op.opcode \in {"OP_Eq", "OP_Ne", "OP_Lt", "OP_Le", "OP_Gt", "OP_Ge"}
  THEN Bind([l \in {Tos(vm.stack, 1)} |-> Bind([r \in {Tos(vm.stack, 0)} |->
         IF l.flags = MEM_Null \/ r.flags = MEM_Null
         THEN IF op.p2 # 0 THEN Jump(vm, op.p1 # 0, op.p2, Popped(vm.stack, 2))
              ELSE Jump(vm, FALSE, 0, Append(Popped(vm.stack, 2), VNull))
         ELSE IF op.p2 # 0
              THEN Jump(vm, Compares(op.opcode, l.i, r.i), op.p2, Popped(vm.stack, 2))
              ELSE Jump(vm, FALSE, 0,
                        Append(Popped(vm.stack, 2),
                               VInt(IF Compares(op.opcode, l.i, r.i) THEN 1 ELSE 0)))])])
  ELSE IF op.opcode = "OP_And"
  THEN Jump(vm, FALSE, 0,
            Append(Popped(vm.stack, 2),
                   OfTruth(AndOf(Truth(Tos(vm.stack, 1)), Truth(Tos(vm.stack, 0))))))
  ELSE IF op.opcode = "OP_Or"
  THEN Jump(vm, FALSE, 0,
            Append(Popped(vm.stack, 2),
                   OfTruth(OrOf(Truth(Tos(vm.stack, 1)), Truth(Tos(vm.stack, 0))))))
  ELSE IF op.opcode = "OP_Not"
  THEN Jump(vm, FALSE, 0,
            Append(Popped(vm.stack, 1),
                   IF Tos(vm.stack, 0).flags = MEM_Null THEN VNull
                   ELSE VInt(IF Tos(vm.stack, 0).i = 0 THEN 1 ELSE 0)))
  ELSE IF op.opcode = "OP_If"
  THEN Jump(vm, IF Tos(vm.stack, 0).flags = MEM_Null THEN op.p1 # 0
                ELSE Tos(vm.stack, 0).i # 0,
            op.p2, Popped(vm.stack, 1))
  ELSE IF op.opcode = "OP_IfNot"
  THEN Jump(vm, IF Tos(vm.stack, 0).flags = MEM_Null THEN op.p1 # 0
                ELSE Tos(vm.stack, 0).i = 0,
            op.p2, Popped(vm.stack, 1))
  ELSE IF op.opcode = "OP_IsNull"
  THEN Jump(vm, \E i \in 0..(Abs(op.p1) - 1) : Tos(vm.stack, i).flags = MEM_Null,
            op.p2, IF op.p1 > 0 THEN Popped(vm.stack, op.p1) ELSE vm.stack)
  ELSE IF op.opcode = "OP_NotNull"
  THEN Jump(vm, \A i \in 0..(Abs(op.p1) - 1) : Tos(vm.stack, i).flags # MEM_Null,
            op.p2, IF op.p1 > 0 THEN Popped(vm.stack, op.p1) ELSE vm.stack)
  ELSE IF op.opcode = "OP_AddImm"
  THEN Jump(vm, FALSE, 0,
            Append(Popped(vm.stack, 1), [Tos(vm.stack, 0) EXCEPT !.i = @ + op.p1]))
  ELSE IF op.opcode = "OP_Goto" THEN Jump(vm, TRUE, op.p2, vm.stack)
  ELSE IF op.opcode \in Lookups
  THEN Jump([vm EXCEPT !.hit = FALSE],
            vm.hit = (op.opcode \in {"OP_Found", "OP_SetFound"}),
            op.p2, Popped(vm.stack, 1))
  ELSE [vm EXCEPT !.st = "halt", !.p1 = op.p1]

PxZero ==
  [h |-> HeapZero, P |-> ParseZero, E |-> 0, T |-> 0, C |-> 0, delT |-> FALSE,
   delC |-> FALSE, res |-> -1, rc |-> -1, runs |-> 0, chk |-> -1, isAgg |-> 0,
   type |-> NoType, ntype |-> 0, agg |-> -1, nagg |-> 0, gen |-> "none", jin |-> 0,
   vm |-> VmZero, op |-> "none"]

\* SELECT a AS al, t1.x AS tx FROM t1, t2 WHERE <t>: the result columns are
\* resolved before the tree t is
ResultColumns ==
  <<ItemAs(Leaf("TK_ID", Tok(7, "", "a", 1)), Tok(12, "", "al", 2)),
    ItemAs(Bin("TK_DOT", Leaf("TK_ID", Tok(16, "", "t1", 2)), Leaf("TK_ID", Tok(19, "", "x", 1))),
           Tok(24, "", "tx", 2))>>

PxOf(t) ==
   Bind([el \in {BuildList(HeapZero, ResultColumns, 1, 0)} |->
      Bind([r \in {ResolveListLoop(el.h, ParseZero, SrcTables, 0, el.h.hp[el.p].a, 1)} |->
      Bind([b \in {Build(r.h, t)} |->
        [PxZero EXCEPT !.h = b.h, !.P = r.P, !.E = el.p, !.T = b.p, !.op = "parse"]])])])

\* The trees that sqlite3ExprType is asked about: every operator over
\* numeric and text operands
NumLeaves == {Leaf("TK_INTEGER", TkInt), Leaf("TK_ID", TkA)}
TextLeaves == {Leaf("TK_STRING", TkStr), Leaf("TK_ID", Tok(8, "", "tx", 2))}
TypeLeaves == {Leaf("TK_INTEGER", TkInt), Leaf("TK_STRING", TkStr)}
BinaryOps ==
  {"TK_PLUS", "TK_MINUS", "TK_STAR", "TK_SLASH", "TK_REM", "TK_BITAND", "TK_BITOR",
   "TK_LSHIFT", "TK_RSHIFT", "TK_AND", "TK_OR", "TK_CONCAT"}
UnaryOps == {"TK_NOT", "TK_UMINUS", "TK_UPLUS", "TK_BITNOT", "TK_ISNULL", "TK_NOTNULL"}
TypeTrees ==
  {Leaf("TK_INTEGER", TkInt), Leaf("TK_FLOAT", Tok(2, "", "1.5", 3)),
   Leaf("TK_STRING", TkStr), Leaf("TK_NULL", Tok(2, "", "NULL", 4)),
   Leaf("TK_VARIABLE", Tok(2, "", "?", 1)), Leaf("TK_ID", TkA), Leaf("TK_ID", TkX),
   Leaf("TK_ID", Tok(8, "", "al", 2)), Leaf("TK_ID", Tok(8, "", "tx", 2)),
   Bin("TK_DOT", Leaf("TK_ID", TkT1), Leaf("TK_ID", Tok(17, "", "x", 1))),
   Func(Tok(0, "", "abs", 3), <<Item(Leaf("TK_ID", TkA))>>),
   Func(Tok(0, "", "abs", 3), <<Item(Leaf("TK_STRING", TkStr))>>),
   Func(Tok(0, "", "upper", 5), <<Item(Leaf("TK_ID", TkA))>>),
   Func(Tok(0, "", "max", 3), <<Item(Leaf("TK_STRING", TkStr))>>),
   Func(Tok(0, "", "count", 5), <<Item(Leaf("TK_STRING", TkStr))>>),
   ScalarSelect(SelectOf(<<Item(Leaf("TK_INTEGER", TkInt))>>, NoTree)),
   ScalarSelect(SelectOf(<<Item(Leaf("TK_STRING", TkStr))>>, NoTree))}
  \cup {Bin(op, l, r) : op \in BinaryOps, l \in TypeLeaves, r \in TypeLeaves}
  \cup {Bin(op, l, r) : op \in CompareOps, l \in NumLeaves \cup TextLeaves, r \in TypeLeaves}
  \cup {Bin(op, l, NoTree) : op \in UnaryOps, l \in TypeLeaves}
  \cup {InList(l, <<Item(r)>>) : l \in TypeLeaves, r \in TypeLeaves}
  \cup {Between(l, r, r) : l \in TypeLeaves, r \in TypeLeaves}
  \cup {Like(op, l, r) : op \in {"TK_LIKE", "TK_GLOB"}, l \in TypeLeaves, r \in TypeLeaves}
  \cup {Case(NoTree, <<Item(Leaf("TK_ID", TkA)), Item(t1), Item(Leaf("TK_ID", TkB)), Item(t2)>>, el) :
          t1 \in TypeLeaves, t2 \in TypeLeaves, el \in TypeLeaves \cup {NoTree}}
  \cup {Case(w, <<Item(Leaf("TK_INTEGER", TkInt)), Item(t1)>>, NoTree) :
          w \in TypeLeaves, t1 \in TypeLeaves}

\* The expressions of an aggregate query: aggregate calls, columns beside
\* them and columns in their arguments
Col(tok) == Leaf("TK_ID", tok)
ColT1X == Bin("TK_DOT", Leaf("TK_ID", TkT1), Leaf("TK_ID", Tok(17, "", "x", 1)))
Call(name, off, args) == Func(Tok(off, "", name, Len(name)), [i \in DOMAIN args |-> Item(args[i])])
AggTrees ==
  {Call("max", 0, <<Col(TkA)>>),
   Call("count", 0, <<Col(TkB)>>),
   Call("count", 0, <<>>),
   Call("abs", 0, <<Col(TkA)>>),
   Call("max", 0, <<Bin("TK_PLUS", Col(TkA), Col(TkB))>>),
   Call("max", 0, <<Call("max", 20, <<Col(TkA)>>)>>),
   Call("abs", 0, <<Call("max", 20, <<Col(TkB)>>)>>),
   Bin("TK_PLUS", Col(TkA), Col(TkA)),
   Bin("TK_PLUS", Col(TkA), Col(TkB)),
   Bin("TK_PLUS", Col(TkA), Call("count", 20, <<Col(TkB)>>)),
   Bin("TK_PLUS", Call("max", 20, <<Col(TkA)>>), Col(TkA)),
   Bin("TK_PLUS", Call("count", 20, <<Col(TkA)>>), Call("count", 40, <<Col(TkA)>>)),
   Bin("TK_PLUS", Call("count", 20, <<Col(TkA)>>), Call("max", 40, <<Col(TkA)>>)),
   Bin("TK_PLUS", Call("count", 20, <<Col(TkA)>>), Call("count", 40, <<Col(TkB)>>)),
   Bin("TK_PLUS", Bin("TK_PLUS", Col(TkB), ColT1X), Call("count", 40, <<Col(TkB)>>)),
   Bin("TK_PLUS", Bin("TK_PLUS", ColT1X, Col(TkA)), Call("max", 40, <<ColT1X>>)),
   Bin("TK_EQ", Col(TkB), Call("max", 20, <<Col(TkB)>>)),
   Bin("TK_AND", Bin("TK_LT", Call("count", 20, <<>>), Col(TkA)),
                 Bin("TK_LT", Call("count", 50, <<>>), Col(TkB))),
   Bin("TK_PLUS", Col(Tok(8, "", "al", 2)), Call("max", 20, <<Col(Tok(28, "", "tx", 2))>>)),
   Case(NoTree, <<Item(Call("count", 20, <<Col(TkA)>>)), Item(Col(TkA))>>, Col(TkB)),
   Case(Col(TkA), <<Item(Col(TkB)), Item(Call("max", 40, <<Col(TkB)>>))>>, NoTree),
   InList(Col(TkA), <<Item(Call("count", 20, <<Col(TkA)>>))>>),
   Between(Call("max", 0, <<Col(TkA)>>), Col(TkA), Col(TkB))}

\* The conditions of a WHERE clause over the column a of t1 and the rowid b
\* of t2, and the expressions of a result column
IntLit(s) == Leaf("TK_INTEGER", Tok(30, "", s, Len(s)))
Conditions ==
  {Bin("TK_LT", Col(TkA), IntLit("1")),
   Bin("TK_EQ", Col(TkB), IntLit("1")),
   Bin("TK_ISNULL", Col(TkA), NoTree),
   Bin("TK_NOT", Col(TkA), NoTree),
   Col(TkA),
   Leaf("TK_NULL", Tok(2, "", "NULL", 4)),
   Between(Col(TkA), IntLit("0"), Col(TkB))}
CodeTrees ==
  Conditions
  \cup {Bin(op, l, r) : op \in {"TK_AND", "TK_OR"}, l \in Conditions, r \in Conditions}
  \cup {Bin(op, Bin(in, Bin("TK_LT", Col(TkA), IntLit("1")), Bin("TK_EQ", Col(TkB), IntLit("1"))),
            Bin("TK_NOTNULL", Col(TkA), NoTree)) :
          op \in {"TK_AND", "TK_OR"}, in \in {"TK_AND", "TK_OR"}}
  \cup {Bin(op, Bin("TK_GE", Col(TkA), IntLit("1")),
            Bin(in, Bin("TK_NE", Col(TkB), IntLit("1")), Col(TkA))) :
          op \in {"TK_AND", "TK_OR"}, in \in {"TK_AND", "TK_OR"}}
  \cup {Bin("TK_NOT", Bin(op, Col(TkA), Col(TkB)), NoTree) : op \in {"TK_AND", "TK_OR"}}
  \cup {Between(Col(TkX1), IntLit("2"), IntLit("4")) : TkX1 \in {TkA, TkB}}
  \cup {Between(ColT1X, IntLit("2"), IntLit("4")),
        Between(Bin("TK_PLUS", Col(TkA), Col(TkB)), IntLit("99999999999"), Bin("TK_UMINUS", IntLit("4"), NoTree)),
        Between(Between(Col(TkA), IntLit("0"), IntLit("1")), IntLit("1"), IntLit("2")),
        Bin("TK_EQ", ColT1X, Leaf("TK_STRING", TkStr)),
        Bin("TK_AND", Bin("TK_EQ", ColT1X, Leaf("TK_STRING", TkStr)), Col(TkA)),
        Bin("TK_LSHIFT", Col(TkA), IntLit("1")),
        Bin("TK_CONCAT", Col(TkA), Leaf("TK_STRING", TkStr)),
        Call("abs", 0, <<Col(TkA)>>),
        InList(Col(TkA), <<Item(IntLit("1"))>>),
        Bin("TK_OR", InList(Col(TkA), <<Item(IntLit("1"))>>), Col(TkB)),
        Case(NoTree, <<Item(Col(TkA)), Item(IntLit("1"))>>, NoTree),
        Case(Col(TkA), <<Item(IntLit("1")), Item(Col(TkB)), Item(IntLit("2")), Item(Col(TkA))>>, IntLit("4"))}

----------------------------------------------------------------------------
(* Configurations and inputs *)

Keys == 1..MaxKey
\* blob sizes: with 512-byte pages and the minimum cache of SORTER_MIN_WORKING
\* pages, two small records fit below mxPmaSize and a big one does not
SmallRec == 2000
BigRec == 6000
RecSizes == {SmallRec, BigRec}

Config(nWorker, cache_size, pScratch, bTempInMemory) ==
  [nWorker |-> nWorker, pgsz |-> 512, cache_size |-> cache_size,
   pScratch |-> pScratch, bTempInMemory |-> bTempInMemory]

SingleThreaded ==
  { Config(0, 0, FALSE, FALSE),      \* bulk arena, mxPmaSize = 10 pages
    Config(0, 0, TRUE, FALSE),       \* one allocation per record
    Config(0, 20, TRUE, FALSE),      \* mnPmaSize < mxPmaSize
    Config(0, 100, FALSE, FALSE),    \* nothing ever spills
    Config(0, 0, FALSE, TRUE) }      \* temp files in memory: mxPmaSize = 0
MultiThreaded ==
  { Config(1, 0, FALSE, FALSE), Config(1, 0, TRUE, FALSE), Config(2, 0, FALSE, FALSE) }
Configs == SingleThreaded \cup MultiThreaded

Tagged(raw) == [i \in 1..Len(raw) |-> [key |-> raw[i][1], tag |-> i, n |-> raw[i][2]]]

RECURSIVE SeqsOf(_, _)
SeqsOf(S, n) ==
  IF n = 0 THEN {<<>>}
  ELSE {Append(q, e) : q \in SeqsOf(S, n - 1), e \in S}

\* Write() takes the records of the input one by one and Rewind() can follow
\* any of them, so the shorter inputs are the prefixes of these
ShortInputs == {Tagged(raw) : raw \in SeqsOf(Keys \X RecSizes, MaxLen)}
BigInputs == {Tagged(raw) : raw \in SeqsOf(Keys \X {BigRec}, MaxLen)}

\* Inputs that spill more than SORTER_MAX_MERGE_COUNT PMAs, so that the merge
\* tree gets a second level
LongLen == SORTER_MAX_MERGE_COUNT + MaxKey
LongKey(pat, i) ==
  IF pat = 1 THEN (i % MaxKey) + 1
  ELSE IF pat = 2 THEN MaxKey - (i % MaxKey)
  ELSE IF pat = 3 THEN (IF i <= LongLen \div 2 THEN MaxKey ELSE 1)
  ELSE ((i * i) % MaxKey) + 1
LongInputs == {[i \in 1..LongLen |-> [key |-> LongKey(pat, i), tag |-> i, n |-> BigRec]]
                 : pat \in 1..4}

\* Equal-sized records, two of which fit below the mxPmaSize of 10 pages
EqualLen == 5
EqualInputs == {[i \in 1..EqualLen |-> [key |-> LongKey(pat, i), tag |-> i, n |-> SmallRec]]
                  : pat \in 1..4}

\* Three flushes at Write time, so that with two workers the round robin
\* comes back to a subtask whose thread may still run
RoundLen == 4
RoundInputs == {[i \in 1..RoundLen |-> [key |-> LongKey(1, i), tag |-> i, n |-> BigRec]]}

InputsOf(c) ==
  IF c = Config(0, 0, FALSE, FALSE) \/ c = Config(0, 0, TRUE, FALSE)
  THEN ShortInputs \cup LongInputs \cup EqualInputs
  ELSE IF c.nWorker = 2 THEN BigInputs \cup RoundInputs
  ELSE ShortInputs

----------------------------------------------------------------------------
(* The PMA writer and the PMA reader on the bytes of a temp file.  A file,  *)
(* like a buffer, is the sequence of its bytes: the byte at offset i is    *)
(* f[i + 1].  A record is the sequence of its bytes.                       *)

\* A byte of memory that was allocated and not written, or a byte read
\* beyond the end of a file
Junk == 0 - 1

\* The sequence f with its elements computed once
Tup(f) == f \o <<>>

Bytes(n, b) == Tup([i \in 1..n |-> b])
At(a, i) == IF i \in 1..Len(a) THEN a[i] ELSE Junk

\* memcpy(&dst[at], src, n)
memcpy(dst, at, src) ==
  Tup([i \in 1..Len(dst) |-> IF i > at /\ i <= at + Len(src) THEN src[i - at] ELSE dst[i]])

\* sqlite3OsWrite: the bytes a go to offset iOff of the file
sqlite3OsWrite(f, a, iOff) ==
  Tup([i \in 1..Max(Len(f), iOff + Len(a)) |->
         IF i > iOff /\ i <= iOff + Len(a) THEN a[i - iOff]
         ELSE IF i <= Len(f) THEN f[i] ELSE 0])

\* sqlite3OsRead: n bytes from offset iOff of the file
sqlite3OsRead(f, n, iOff) == Tup([i \in 1..n |-> At(f, iOff + i)])

\* sqlite3PutVarint: 7 bits a byte, the most significant first, bit 7 set on
\* every byte but the last
sqlite3PutVarint(v) ==
  IF v < 128 THEN <<v>>
  ELSE IF v < 16384 THEN <<128 + (v \div 128), v % 128>>
  ELSE IF v < 2097152 THEN <<128 + (v \div 16384), 128 + ((v \div 128) % 128), v % 128>>
  ELSE <<128 + (v \div 2097152), 128 + ((v \div 16384) % 128),
         128 + ((v \div 128) % 128), v % 128>>

\* sqlite3GetVarint of the bytes of a from index i on: the value and the
\* number of bytes used
RECURSIVE GetVarintLoop(_, _, _, _)
GetVarintLoop(a, i, acc, n) ==
  IF n = 8 THEN [v |-> acc * 256 + At(a, i), n |-> 9]
  ELSE IF At(a, i) >= 128 THEN GetVarintLoop(a, i + 1, acc * 128 + (At(a, i) - 128), n + 1)
  ELSE [v |-> acc * 128 + At(a, i), n |-> n + 1]
sqlite3GetVarint(a, i) == GetVarintLoop(a, i, 0, 0)

\* vdbePmaWriterInit.  W.p is the PmaWriter, W.f the file
vdbePmaWriterInit(f, nBuf, iStart) ==
  [p |-> [eFWErr |-> 0, aBuffer |-> Bytes(nBuf, Junk), nBuffer |-> nBuf,
          iBufStart |-> iStart % nBuf, iBufEnd |-> iStart % nBuf,
          iWriteOff |-> iStart - (iStart % nBuf)],
   f |-> f]

\* A faulty vdbePmaWriteBlob that starts every write to the file at the
\* start of the buffer; the round trip is checked against it
RECURSIVE vdbePmaWriteBlob_WholeBuffer(_, _, _)
vdbePmaWriteBlob_WholeBuffer(W, pData, nRem) ==
  IF ~(nRem > 0 /\ W.p.eFWErr = 0) THEN W
  ELSE Bind([nCopy \in {Min(nRem, W.p.nBuffer - W.p.iBufEnd)} |->
       Bind([buf \in {memcpy(W.p.aBuffer, W.p.iBufEnd,
                             SubSeq(pData, Len(pData) - nRem + 1,
                                    Len(pData) - nRem + nCopy))} |->
       Bind([W1 \in {IF W.p.iBufEnd + nCopy = W.p.nBuffer
                     THEN [p |-> [W.p EXCEPT !.aBuffer = buf, !.iBufStart = 0, !.iBufEnd = 0,
                                             !.iWriteOff = W.p.iWriteOff + W.p.nBuffer],
                           f |-> sqlite3OsWrite(W.f, buf, W.p.iWriteOff)]
                     ELSE [W EXCEPT !.p.aBuffer = buf, !.p.iBufEnd = W.p.iBufEnd + nCopy]} |->
          vdbePmaWriteBlob_WholeBuffer(W1, pData, nRem - nCopy)])])])

\* vdbePmaWriteBlob, with nRem of the bytes of pData still to go
RECURSIVE vdbePmaWriteBlob(_, _, _)
vdbePmaWriteBlob(W, pData, nRem) ==
  IF ~(nRem > 0 /\ W.p.eFWErr = 0) THEN W
  ELSE Bind([nCopy \in {Min(nRem, W.p.nBuffer - W.p.iBufEnd)} |->
       Bind([buf \in {memcpy(W.p.aBuffer, W.p.iBufEnd,
                             SubSeq(pData, Len(pData) - nRem + 1,
                                    Len(pData) - nRem + nCopy))} |->
       Bind([W1 \in {IF W.p.iBufEnd + nCopy = W.p.nBuffer
                     THEN [p |-> [W.p EXCEPT !.aBuffer = buf, !.iBufStart = 0, !.iBufEnd = 0,
                                             !.iWriteOff = W.p.iWriteOff + W.p.nBuffer],
                           f |-> sqlite3OsWrite(W.f,
                                     SubSeq(buf, W.p.iBufStart + 1, W.p.nBuffer),
                                     W.p.iWriteOff + W.p.iBufStart)]
                     ELSE [W EXCEPT !.p.aBuffer = buf, !.p.iBufEnd = W.p.iBufEnd + nCopy]} |->
          vdbePmaWriteBlob(W1, pData, nRem - nCopy)])])])

\* vdbePmaWriteVarint
vdbePmaWriteVarint(W, iVal) ==
  vdbePmaWriteBlob(W, sqlite3PutVarint(iVal), Len(sqlite3PutVarint(iVal)))

\* vdbePmaWriterFinish: the file and *piEof
vdbePmaWriterFinish(W) ==
  [f |-> IF W.p.eFWErr = 0 /\ W.p.iBufEnd > W.p.iBufStart
         THEN sqlite3OsWrite(W.f, SubSeq(W.p.aBuffer, W.p.iBufStart + 1, W.p.iBufEnd),
                             W.p.iWriteOff + W.p.iBufStart)
         ELSE W.f,
   iEof |-> W.p.iWriteOff + W.p.iBufEnd,
   rc |-> W.p.eFWErr]

\* list.szPMA as sqlite3VdbeSorterWrite adds it up
RECURSIVE SzPMA(_)
SzPMA(l) ==
  IF l = <<>> THEN 0
  ELSE Len(Head(l)) + sqlite3VarintLen(Len(Head(l))) + SzPMA(Tail(l))

\* The loop of vdbeSorterListToPMA over the sorted list
RECURSIVE WriteRecords(_, _)
WriteRecords(W, l) ==
  IF l = <<>> THEN W
  ELSE WriteRecords(vdbePmaWriteBlob(vdbePmaWriteVarint(W, Len(Head(l))),
                                     Head(l), Len(Head(l))),
                    Tail(l))

\* What vdbeSorterListToPMA writes: the list l, sorted already, as one PMA
\* at offset iEof of the file
WritePMA(f, pgsz, iEof, l) ==
  vdbePmaWriterFinish(
    WriteRecords(vdbePmaWriteVarint(vdbePmaWriterInit(f, pgsz, iEof), SzPMA(l)), l))

\* struct PmaReader.  aKey points into the file mapping ("map"), into
\* aBuffer ("buf") or to aAlloc ("alloc"): m says where, o is the offset
NullPtr == [m |-> "null", o |-> 0]
PmaReaderZero ==
  [iReadOff |-> 0, iEof |-> 0, nAlloc |-> 0, nKey |-> 0, pFile |-> 0, aAlloc |-> <<>>,
   aKey |-> NullPtr, aBuffer |-> <<>>, nBuffer |-> 0, aMap |-> FALSE]

\* R.r is the PmaReader, R.f the file, R.x the assert()s that failed.
\* The n bytes a pointer points to
Deref(R, ptr, n) ==
  IF ptr.m = "map" THEN sqlite3OsRead(R.f, n, ptr.o)
  ELSE IF ptr.m = "buf" THEN Tup([i \in 1..n |-> At(R.r.aBuffer, ptr.o + i)])
  ELSE IF ptr.m = "alloc" THEN Tup([i \in 1..n |-> At(R.r.aAlloc, ptr.o + i)])
  ELSE Bytes(n, Junk)

RECURSIVE vdbePmaReadBlob(_, _)
RECURSIVE ReadBlobCopy(_, _, _)

\* The while( nRem>0 ) loop of vdbePmaReadBlob
ReadBlobCopy(R, nByte, nRem) ==
  IF nRem <= 0 THEN R
  ELSE Bind([nCopy \in {Min(nRem, R.r.nBuffer)} |->
       Bind([b \in {vdbePmaReadBlob(R, nCopy)} |->
       Bind([R1 \in {FailIf(b.R, b.out.m = "alloc", "assert aNext!=p->aAlloc")} |->
          ReadBlobCopy([R1 EXCEPT !.r.aAlloc = memcpy(R1.r.aAlloc, nByte - nRem,
                                                       Deref(R1, b.out, nCopy))],
                       nByte, nRem - nCopy)])])])

\* vdbePmaReadBlob: the reader after the call and *ppOut
vdbePmaReadBlob(R, nByte) ==
  IF R.r.aMap
  THEN [R |-> [R EXCEPT !.r.iReadOff = R.r.iReadOff + nByte],
        out |-> [m |-> "map", o |-> R.r.iReadOff]]
  ELSE
    Bind([iBuf \in {R.r.iReadOff % R.r.nBuffer} |->
    Bind([nRead \in {IF R.r.iEof - R.r.iReadOff > R.r.nBuffer THEN R.r.nBuffer
                     ELSE R.r.iEof - R.r.iReadOff} |->
    Bind([R1 \in {IF iBuf = 0
                  THEN [FailIf(FailIf(R, ~(nRead > 0), "assert nRead>0"),
                               R.r.iReadOff + nRead > Len(R.f),
                               "assert rc!=SQLITE_IOERR_SHORT_READ")
                          EXCEPT !.r.aBuffer = memcpy(R.r.aBuffer, 0,
                                                 sqlite3OsRead(R.f, nRead, R.r.iReadOff))]
                  ELSE R} |->
    Bind([nAvail \in {R.r.nBuffer - iBuf} |->
      IF nByte <= nAvail
      THEN [R |-> [R1 EXCEPT !.r.iReadOff = R.r.iReadOff + nByte],
            out |-> [m |-> "buf", o |-> iBuf]]
      ELSE
        Bind([nNew \in {IF R1.r.nAlloc < nByte
                        THEN GrowTo(Max(128, R1.r.nAlloc * 2), nByte)
                        ELSE R1.r.nAlloc} |->
        Bind([aNew \in {Tup([i \in 1..nNew |-> At(R1.r.aAlloc, i)])} |->
        Bind([R2 \in {[R1 EXCEPT !.r.nAlloc = nNew,
                                 !.r.aAlloc = memcpy(aNew, 0,
                                     SubSeq(R1.r.aBuffer, iBuf + 1, iBuf + nAvail)),
                                 !.r.iReadOff = R.r.iReadOff + nAvail]} |->
           [R |-> ReadBlobCopy(R2, nByte, nByte - nAvail),
            out |-> [m |-> "alloc", o |-> 0]]])])])])])])])

\* The do-while loop of vdbePmaReadVarint: one byte at a time into aVarint
RECURSIVE ReadVarintLoop(_, _, _)
ReadVarintLoop(R, aVarint, i) ==
  Bind([b \in {vdbePmaReadBlob(R, 1)} |->
  Bind([a0 \in {Deref(b.R, b.out, 1)[1]} |->
  Bind([aV \in {[aVarint EXCEPT ![(i % 16) + 1] = a0]} |->
     IF a0 >= 128 THEN ReadVarintLoop(b.R, Tup(aV), i + 1)
     ELSE [R |-> b.R, v |-> sqlite3GetVarint(Tup(aV), 1).v]])])])

\* A faulty vdbePmaReadVarint that decodes in the buffer also at the first
\* byte of a page, which has not been read yet
vdbePmaReadVarint_StalePage(R) ==
  IF R.r.aMap
  THEN [R |-> [R EXCEPT !.r.iReadOff =
                          R.r.iReadOff + sqlite3GetVarint(R.f, R.r.iReadOff + 1).n],
        v |-> sqlite3GetVarint(R.f, R.r.iReadOff + 1).v]
  ELSE
    Bind([iBuf \in {R.r.iReadOff % R.r.nBuffer} |->
      IF R.r.nBuffer - iBuf >= 9
      THEN [R |-> [R EXCEPT !.r.iReadOff =
                              R.r.iReadOff + sqlite3GetVarint(R.r.aBuffer, iBuf + 1).n],
            v |-> sqlite3GetVarint(R.r.aBuffer, iBuf + 1).v]
      ELSE ReadVarintLoop(R, Bytes(16, Junk), 0)])

\* vdbePmaReadVarint: the reader after the call and *pnOut
vdbePmaReadVarint(R) ==
  IF R.r.aMap
  THEN [R |-> [R EXCEPT !.r.iReadOff =
                          R.r.iReadOff + sqlite3GetVarint(R.f, R.r.iReadOff + 1).n],
        v |-> sqlite3GetVarint(R.f, R.r.iReadOff + 1).v]
  ELSE
    Bind([iBuf \in {R.r.iReadOff % R.r.nBuffer} |->
      IF iBuf # 0 /\ R.r.nBuffer - iBuf >= 9
      THEN [R |-> [R EXCEPT !.r.iReadOff =
                              R.r.iReadOff + sqlite3GetVarint(R.r.aBuffer, iBuf + 1).n],
            v |-> sqlite3GetVarint(R.r.aBuffer, iBuf + 1).v]
      ELSE ReadVarintLoop(R, Bytes(16, Junk), 0)])

\* vdbePmaReaderSeek of a reader without IncrMerger to offset iOff of a file
\* of iEof bytes; bMap says whether sqlite3OsFetch() maps the file
PmaReaderSeek(R, pgsz, bMap, iEof, iOff) ==
  Bind([R1 \in {[R EXCEPT !.r.iReadOff = iOff, !.r.iEof = iEof, !.r.pFile = 1,
                          !.r.aMap = bMap]} |->
    IF bMap THEN R1
    ELSE
      Bind([iBuf \in {iOff % pgsz} |->
      Bind([R2 \in {IF R1.r.aBuffer = <<>>
                    THEN [R1 EXCEPT !.r.aBuffer = Bytes(pgsz, Junk), !.r.nBuffer = pgsz]
                    ELSE R1} |->
      Bind([nRead \in {IF iOff + (pgsz - iBuf) > iEof THEN iEof - iOff ELSE pgsz - iBuf} |->
        IF iBuf # 0
        THEN [FailIf(R2, iOff + nRead > Len(R2.f), "assert rc!=SQLITE_IOERR_SHORT_READ")
                EXCEPT !.r.aBuffer = memcpy(R2.r.aBuffer, iBuf,
                                            sqlite3OsRead(R2.f, nRead, iOff))]
        ELSE R2])])])])

\* vdbePmaReaderNext of a reader without IncrMerger
PmaReaderNext(R) ==
  IF R.r.iReadOff >= R.r.iEof
  THEN [R EXCEPT !.r = PmaReaderZero]          \* vdbePmaReaderClear
  ELSE Bind([n \in {vdbePmaReadVarint(R)} |->
       Bind([b \in {vdbePmaReadBlob([n.R EXCEPT !.r.nKey = n.v], n.v)} |->
          [b.R EXCEPT !.r.aKey = b.out]])])

\* vdbePmaReaderInit
PmaReaderInit(R, pgsz, bMap, iEof, iStart) ==
  Bind([R0 \in {FailIf(FailIf(FailIf(FailIf(R,
                   ~(iEof > iStart), "assert pFile->iEof>iStart"),
                   ~(R.r.aAlloc = <<>> /\ R.r.nAlloc = 0), "assert aAlloc==0 && nAlloc==0"),
                   R.r.aBuffer # <<>>, "assert aBuffer==0"),
                   R.r.aMap, "assert aMap==0")} |->
  Bind([n \in {vdbePmaReadVarint(PmaReaderSeek(R0, pgsz, bMap, iEof, iStart))} |->
     PmaReaderNext([n.R EXCEPT !.r.iEof = n.R.r.iReadOff + n.v])])])

\* The key a reader is at, as the caller reads it: nKey bytes at aKey
KeyOf(R) == Deref(R, R.r.aKey, R.r.nKey)

\* No PMA written, no reader
PmaZero ==
  [pgsz |-> 0, bMap |-> FALSE, list |-> <<>>, f |-> <<>>, iEof |-> 0, at |-> <<>>,
   wrote |-> <<>>, r |-> PmaReaderZero, k |-> 0, out |-> <<>>, pc |-> "none", x |-> {}]

----------------------------------------------------------------------------
(* The allocator of malloc.c with memory statistics on (bMemstat) and the  *)
(* core mutex allocated (bCoreMutex): mem0, SQLITE_STATUS_MEMORY_USED, the *)
(* allocations that are live, and the threads inside sqlite3Malloc         *)

\* The threads that call the allocator, the depth to which allocations from
\* inside an alarm callback nest, and the bytes the system heap can give
NThreads == 2
MaxDepth == 2
HeapSize == 32
Threads == 1..NThreads

\* the size asked for, and xRoundup of the default allocator: up to a
\* multiple of 8
AskSizes == {12}
xRoundup(n) == ((n + 7) \div 8) * 8
FullSizes == {xRoundup(n) : n \in AskSizes}

\* What sqlite3MemoryAlarm is called with: no alarm, the soft heap limit of
\* sqlite3_soft_heap_limit(16), and a callback of sqlite3_memory_alarm
NoAlarm == [xCallback |-> "0", pArg |-> 0, iThreshold |-> 0]
Alarms ==
  {NoAlarm,
   [xCallback |-> "softHeapLimitEnforcer", pArg |-> 0, iThreshold |-> 16],
   [xCallback |-> "xCallback", pArg |-> 1, iThreshold |-> 24]}

\* mem0 after sqlite3MallocInit: mutex is the thread that holds
\* SQLITE_MUTEX_STATIC_MEM, 0 when it is free
Mem0Zero == [mutex |-> 0, alarmThreshold |-> 0, alarmCallback |-> "0", alarmArg |-> 0]

\* used is SQLITE_STATUS_MEMORY_USED, live the number of allocations of each
\* size that were not freed, thr the calls of sqlite3Malloc each thread is
\* inside, outermost first
MemZero ==
  [mem0 |-> Mem0Zero, used |-> 0, live |-> [z \in FullSizes |-> 0],
   thr |-> [t \in Threads |-> <<>>], op |-> "none"]

----------------------------------------------------------------------------
(* The state machine *)

Tasks == DOMAIN task

\* The bundle of the current state
H ==
  [s |-> sorter, t |-> task, e |-> eng, i |-> incr, d |-> disk, a |-> arena,
   x |-> main.x, flt |-> main.flt, nf |-> main.nf, blk |-> FALSE, jn |-> {},
   pc |-> main.pc, op |-> main.op, j |-> main.j, k |-> main.k, rc |-> main.rc,
   off |-> main.off, eof |-> main.eof]

Commit(h) ==
  /\ ~h.blk
  /\ sorter' = h.s
  /\ task' = h.t
  /\ eng' = h.e
  /\ incr' = h.i
  /\ disk' = h.d
  /\ arena' = h.a
  /\ main' = [pc |-> h.pc, op |-> h.op, j |-> h.j, k |-> h.k, rc |-> h.rc,
              off |-> h.off, eof |-> h.eof, x |-> h.x, flt |-> h.flt, nf |-> h.nf]
  /\ UNCHANGED <<cfg, input, px, pma, mem>>

\* sqlite3VdbeSorterInit
SorterInit(c) ==
   Bind([bulk \in {~c.bTempInMemory /\ ~c.pScratch} |->
      Bind([mxCache \in {Max(c.cache_size, SORTER_MIN_WORKING)} |->
     [nTask |-> c.nWorker + 1,
      bUseThreads |-> IF c.nWorker + 1 > 1 THEN 1 ELSE 0,
      pgsz |-> c.pgsz,
      mnPmaSize |-> IF c.bTempInMemory THEN 0 ELSE SORTER_MIN_WORKING * c.pgsz,
      mxPmaSize |-> IF c.bTempInMemory THEN 0 ELSE mxCache * c.pgsz,
      nMemory |-> IF bulk THEN c.pgsz ELSE 0,
      iMemory |-> 0,
      list |-> [pList |-> <<>>, aMemory |-> IF bulk THEN 1 ELSE 0, szPMA |-> 0],
      bUsePMA |-> 0, iPrev |-> 0, mxKeysize |-> 0, pUnpacked |-> NoUnpacked,
      pMerger |-> 0, pReader |-> 0, rdr |-> ReaderZero]])])

\* no sqlite3VdbeSorterCompare since Init or the last Reset
NoArg == [pVal |-> NoKey, nIgnore |-> 0]

MainZero ==
  [pc |-> "idle", op |-> "none", j |-> 0, k |-> 0, rc |-> OK, off |-> 0, eof |-> FALSE,
   x |-> {}, flt |-> "none", nf |-> 0]

Init ==
  /\ cfg \in Configs
  /\ input \in InputsOf(cfg)
  /\ sorter = SorterInit(cfg)
  /\ task = [i \in 0..cfg.nWorker |-> TaskZero]
  /\ eng = EmptyMap
  /\ incr = EmptyMap
  /\ disk = EmptyMap
  /\ arena = IF sorter.list.aMemory # 0 THEN Put(EmptyMap, 1, cfg.pgsz) ELSE EmptyMap
  /\ main = MainZero
  /\ csr = [pSorter |-> 1, pKeyInfo |-> [nField |-> 1]]
  /\ obs = [op |-> "Init", rc |-> OK, eof |-> FALSE, out |-> <<>>, pos |-> 0,
            epoch |-> 0, failed |-> OK, phase |-> "write", waited |-> FALSE, hnf |-> FALSE,
            res |-> 0, arg |-> NoArg]
  /\ px = PxZero
  /\ pma = PmaZero
  /\ mem = MemZero

Idle == main.pc = "idle" /\ main.x = {} /\ csr.pSorter = 1

\* the subsets of finished workers whose bDone the calling thread may see set
SeenChoices == SUBSET {i \in Tasks : task[i].bDone = 1}

\* sqlite3HeapNearlyFull() matters only between mnPmaSize and mxPmaSize
HnfChoices ==
  IF sorter.list.aMemory = 0 /\ sorter.list.szPMA > sorter.mnPmaSize
     /\ sorter.list.szPMA <= sorter.mxPmaSize
  THEN BOOLEAN ELSE {FALSE}

Sticky(rc) == IF obs.failed = OK THEN rc ELSE obs.failed

\* What the caller sees when a call that was started earlier returns
Returned(h) ==
  IF h.op = "Rewind"
  THEN [obs EXCEPT !.op = "Rewind", !.rc = h.rc, !.eof = h.eof,
                   !.failed = Sticky(h.rc),
                   !.out = IF h.rc = OK /\ ~h.eof /\ h.x = {}
                           THEN <<vdbeSorterRowkey(h.s, h.e)>> ELSE <<>>,
                   !.phase = IF h.rc # OK THEN "failed"
                             ELSE IF h.eof THEN "eof" ELSE "read"]
  ELSE [op |-> h.op, rc |-> OK, eof |-> FALSE, out |-> <<>>, pos |-> 0,
        epoch |-> IF h.op = "Reset" THEN obs.epoch + 1 ELSE obs.epoch,
        failed |-> OK, phase |-> IF h.op = "Close" THEN "closed" ELSE "write",
        waited |-> FALSE, hnf |-> FALSE, res |-> 0, arg |-> NoArg]

CommitCall(h) ==
  /\ Commit(h)
  /\ obs' = IF h.pc = "idle" THEN [Returned(h) EXCEPT !.waited = main.pc # "idle"] ELSE obs
  /\ csr' = IF h.pc = "idle" /\ h.op = "Close" THEN [csr EXCEPT !.pSorter = 0] ELSE csr

Write ==
  /\ Idle
  /\ obs.phase = "write"
  /\ obs.pos < Len(input)
  /\ \E hnf \in HnfChoices, seen \in SeenChoices :
        \E r \in {sqlite3VdbeSorterWrite(H, input[obs.pos + 1], hnf, seen)} :
          /\ Commit(r.h)
          /\ obs' = [obs EXCEPT !.op = "Write", !.rc = r.rc, !.pos = obs.pos + 1,
                                !.failed = Sticky(r.rc), !.waited = FALSE, !.hnf = hnf]
  /\ UNCHANGED csr

Rewind ==
  /\ Idle
  /\ obs.phase = "write"
  /\ \E seen \in SeenChoices :
       CommitCall(sqlite3VdbeSorterRewind([H EXCEPT !.op = "Rewind"], seen))

NextRow ==
  /\ Idle
  /\ obs.phase = "read"
  /\  \E h \in {sqlite3VdbeSorterNext(H)} :
        /\ Commit(h)
        /\ obs' = [obs EXCEPT !.op = "Next", !.rc = h.rc, !.eof = h.eof,
                              !.failed = Sticky(h.rc), !.waited = FALSE,
                              !.out = IF h.rc = OK /\ ~h.eof /\ h.x = {}
                                      THEN Append(obs.out, vdbeSorterRowkey(h.s, h.e))
                                      ELSE obs.out,
                              !.phase = IF h.rc # OK THEN "failed"
                                        ELSE IF h.eof THEN "eof" ELSE "read"]
  /\ UNCHANGED csr

Reset ==
  /\ Idle
  /\ obs.epoch < MaxResets
  /\ CommitCall(ResetOrClose(H, FALSE))

Close ==
  /\ Idle
  /\ CommitCall(ResetOrClose(H, TRUE))

\* The calling thread resumes after the thread it waited for has finished
Resume ==
  /\ main.pc # "idle"
  /\ main.x = {}
  /\ ~Same(RunMain(H), H)
  /\ CommitCall(RunMain(H))

\* The host makes the next temp-file open, or the next PMA write, fail
InjectFault ==
  /\ Idle
  /\ obs.phase = "write"
  /\ obs.epoch = 0
  /\ main.flt = "none"
  /\ main.nf < MaxFaults
  /\ \E kind \in {"open", "write"} : main' = [main EXCEPT !.flt = kind]
  /\ UNCHANGED <<cfg, input, sorter, task, eng, incr, disk, arena, csr, obs, px, pma, mem>>

Running(i, kind) ==
  /\ main.x = {}
  /\ task[i].pThread = 1
  /\ task[i].bDone = 0
  /\ task[i].thr.kind = kind

\* vdbeSorterFlushThread
FlushThread(i) ==
  /\ Running(i, "flush")
  /\  \E r \in {vdbeSorterListToPMA(H, i, "task")} :
        Commit([r.h EXCEPT !.t[i].bDone = 1, !.t[i].thr.ret = r.rc])
  /\ UNCHANGED <<csr, obs>>

\* vdbePmaReaderBgInit
BgInitThread(i) ==
  /\ Running(i, "bginit")
  /\ Commit(vdbePmaReaderBgInit(H, i, IterRef(incr[sorter.rdr.pIncr].pMerger,
                                                  task[i].thr.arg)))
  /\ UNCHANGED <<csr, obs>>

\* vdbeIncrPopulateThread of a subtask's IncrMerger
PopulateThread(i) ==
  /\ Running(i, "populate")
  /\ task[i].thr.arg # sorter.rdr.pIncr
  /\  \E r \in {vdbeIncrPopulate(H, task[i].thr.arg)} :
        Commit([r.h EXCEPT !.t[i].bDone = 1, !.t[i].thr.ret = r.rc])
  /\ UNCHANGED <<csr, obs>>

\* vdbeIncrPopulateThread of the root IncrMerger, one key per step: its
\* vdbeSorterNext() can wait for a subtask's thread
RootPopulateThread(i) ==
  /\ Running(i, "populate")
  /\ task[i].thr.arg = sorter.rdr.pIncr
  /\  \E iid \in {task[i].thr.arg} :
         \E off \in {IF task[i].thr.run = 0 THEN incr[iid].iStartOff ELSE task[i].thr.off} :
         \E h0 \in {FailIf(H, task[i].thr.run = 0 /\ incr[iid].bEof # 0, "assert pIncr->bEof==0")} :
         \E st \in {PopulateStep(h0, iid, off)} :
        IF st.brk
        THEN Commit([PopulateFinish(st.h, iid, st.off)
                       EXCEPT !.t[i].bDone = 1, !.t[i].thr.ret = st.rc])
        ELSE Commit([st.h EXCEPT !.t[i].thr.off = st.off, !.t[i].thr.run = 1])
  /\ UNCHANGED <<csr, obs>>

Next ==
  \/ Write
  \/ Rewind
  \/ NextRow
  \/ Reset
  \/ Close
  \/ Resume
  \/ InjectFault
  \/ \E i \in Tasks : FlushThread(i)
  \/ \E i \in Tasks : BgInitThread(i)
  \/ \E i \in Tasks : PopulateThread(i)
  \/ \E i \in Tasks : RootPopulateThread(i)

Spec == Init /\ [][Next]_vars

\* The bundle after the next step of the thread of subtask w
WorkerStep(w) ==
  IF task[w].thr.kind = "flush" THEN vdbeSorterListToPMA(H, w, "task").h
  ELSE IF task[w].thr.kind = "bginit"
  THEN vdbePmaReaderBgInit(H, w, IterRef(incr[sorter.rdr.pIncr].pMerger, task[w].thr.arg))
  ELSE IF task[w].thr.arg # sorter.rdr.pIncr
  THEN vdbeIncrPopulate(H, task[w].thr.arg).h
  ELSE PopulateStep(H, task[w].thr.arg,
                    IF task[w].thr.run = 0 THEN incr[task[w].thr.arg].iStartOff
                    ELSE task[w].thr.off).h

\* A thread has started and not finished
Unfinished(w) == main.x = {} /\ task[w].pThread = 1 /\ task[w].bDone = 0

\* Some worker can take a step, or sqlite3ThreadJoin() can return to the
\* calling thread: what ENABLED <<Scheduled>>_vars is, as a state predicate
CanRun ==
  \/ main.pc # "idle" /\ main.x = {} /\ ~Same(RunMain(H), H) /\ ~RunMain(H).blk
  \/ \E w \in Tasks : Unfinished(w) /\ ~WorkerStep(w).blk

\* Fair scheduling of the threads of a multi-threaded sorter: as long as a
\* worker can take a step, or sqlite3ThreadJoin() can return to the calling
\* thread, one of them does: WF_vars(Scheduled), written out.  Every thread
\* ends after finitely many steps, so this is all that fairness among the
\* threads is needed for.  The calls of the VDBE itself (Write, Rewind, Next,
\* Reset, Close) are under no obligation.
Worker(i) ==
  FlushThread(i) \/ BgInitThread(i) \/ PopulateThread(i) \/ RootPopulateThread(i)
Scheduled == Resume \/ \E i \in Tasks : Worker(i)
Fairness == []<>~CanRun \/ []<><<Scheduled>>_vars
\* The multi-threaded sorters, with records that each fill a PMA
FairInit == Init /\ cfg \in MultiThreaded /\ input \in BigInputs \cup RoundInputs
FairSpec == FairInit /\ [][Next]_vars /\ Fairness

----------------------------------------------------------------------------
(* Allocation failure.  The one sqlite3Malloc() of the sorter whose failure *)
(* leaves the sorter changed is the replacement of the bulk memory that a   *)
(* flush has handed to a worker.                                           *)

\* The host makes the next sqlite3Malloc() of vdbeSorterFlushPMA return 0
InjectNoMem ==
  /\ Idle
  /\ obs.phase = "write"
  /\ obs.epoch = 0
  /\ main.flt = "none"
  /\ main.nf < MaxFaults
  /\ main' = [main EXCEPT !.flt = "nomem"]
  /\ UNCHANGED <<cfg, input, sorter, task, eng, incr, disk, arena, csr, obs, px, pma, mem>>

MemNext ==
  \/ Next
  \/ InjectNoMem

\* The multi-threaded sorters, only they hand the bulk memory to a worker,
\* with records that each fill a PMA
MemInit == Init /\ cfg \in MultiThreaded /\ input \in BigInputs \cup RoundInputs
MemSpec == MemInit /\ [][MemNext]_vars

----------------------------------------------------------------------------
(* Calls out of lifecycle order.  The functions take the sorter as it is:  *)
(* nothing in struct VdbeSorter records the phase.                         *)

\* sqlite3VdbeSorterWrite after sqlite3VdbeSorterRewind
WriteOutOfOrder ==
  /\ Idle
  /\ obs.phase \in {"read", "eof"}
  /\ obs.pos < Len(input)
  /\ \E hnf \in HnfChoices, seen \in SeenChoices :
        \E r \in {sqlite3VdbeSorterWrite(H, input[obs.pos + 1], hnf, seen)} :
          /\ Commit(r.h)
          /\ obs' = [obs EXCEPT !.op = "Write", !.rc = r.rc, !.pos = obs.pos + 1,
                                !.failed = Sticky(r.rc), !.waited = FALSE, !.hnf = hnf,
                                !.phase = "misused"]
  /\ UNCHANGED csr

\* sqlite3VdbeSorterNext before sqlite3VdbeSorterRewind, or after eof was reported
NextOutOfOrder ==
  /\ Idle
  /\ obs.phase \in {"write", "eof"}
  /\ \E h \in {sqlite3VdbeSorterNext(H)} :
        /\ Commit(h)
        /\ obs' = [obs EXCEPT !.op = "Next", !.rc = h.rc, !.eof = h.eof,
                              !.failed = Sticky(h.rc), !.waited = FALSE,
                              !.phase = "misused"]
  /\ UNCHANGED csr

MisuseNext ==
  \/ Next
  \/ WriteOutOfOrder
  \/ NextOutOfOrder

MisuseSpec == Init /\ [][MisuseNext]_vars

----------------------------------------------------------------------------
(* sqlite3VdbeSorterCompare on the current key.  The keys have nKeyField    *)
(* fields, any of which may be NULL.                                       *)

nKeyField == 2
CompareLen == 2
CompareKeys == {Pack(<<Mem(0), Mem(1)>>), Pack(<<Mem(1), Mem(0)>>), Pack(<<Mem(1), Mem(1)>>), Pack(<<Mem(1), Mem(2)>>)}
CompareInputs ==
  {[i \in 1..CompareLen |-> [key |-> raw[i], tag |-> i, n |-> BigRec]]
     : raw \in SeqsOf(CompareKeys, CompareLen)}
CompareConfigs ==
  { Config(0, 100, FALSE, FALSE),    \* the current key is the head of the list
    Config(0, 0, FALSE, FALSE),      \* ... the key of the merge engine's winner
    Config(1, 0, FALSE, FALSE) }     \* ... the key of pSorter->pReader

\* the keys the VDBE compares with: the rowid field is the ignored one
CompareVals ==
  {[key |-> k, tag |-> 0, n |-> BigRec]
     : k \in {Pack(<<Mem(1), Mem(1)>>), Pack(<<Mem(1), Mem(2)>>), Pack(<<Mem(0), Mem(1)>>)}}

CompareInit ==
  /\ cfg \in CompareConfigs
  /\ input \in CompareInputs
  /\ sorter = SorterInit(cfg)
  /\ task = [i \in 0..cfg.nWorker |-> TaskZero]
  /\ eng = EmptyMap
  /\ incr = EmptyMap
  /\ disk = EmptyMap
  /\ arena = IF sorter.list.aMemory # 0 THEN Put(EmptyMap, 1, cfg.pgsz) ELSE EmptyMap
  /\ main = MainZero
  /\ csr = [pSorter |-> 1, pKeyInfo |-> [nField |-> nKeyField]]
  /\ obs = [op |-> "Init", rc |-> OK, eof |-> FALSE, out |-> <<>>, pos |-> 0,
            epoch |-> 0, failed |-> OK, phase |-> "write", waited |-> FALSE, hnf |-> FALSE,
            res |-> 0, arg |-> NoArg]
  /\ px = PxZero
  /\ pma = PmaZero
  /\ mem = MemZero

\* OP_SorterCompare
Compare ==
  /\ Idle
  /\ obs.phase = "read"
  /\ \E pVal \in CompareVals, nIgnore \in {0, 1} :
       \E r \in {sqlite3VdbeSorterCompare(H, csr.pKeyInfo, pVal, nIgnore)} :
          /\ Commit(r.h)
          /\ obs' = [obs EXCEPT !.op = "Compare", !.rc = r.rc, !.res = r.res,
                                !.arg = [pVal |-> pVal, nIgnore |-> nIgnore],
                                !.failed = Sticky(r.rc), !.waited = FALSE]
  /\ UNCHANGED csr

CompareNext ==
  \/ Next
  \/ Compare

CompareSpec == CompareInit /\ [][CompareNext]_vars

----------------------------------------------------------------------------
(* The expression routines of expr.c on the trees of ExprTrees *)

\* sqlite3ExprResolveIds runs at most this often on one tree
MaxResolve == 2

ExprInit ==
  /\ cfg = Config(0, 0, FALSE, FALSE)
  /\ input = <<>>
  /\ sorter = SorterInit(cfg)
  /\ task = [i \in 0..cfg.nWorker |-> TaskZero]
  /\ eng = EmptyMap
  /\ incr = EmptyMap
  /\ disk = EmptyMap
  /\ arena = Put(EmptyMap, 1, cfg.pgsz)
  /\ main = MainZero
  /\ csr = [pSorter |-> 1, pKeyInfo |-> [nField |-> 1]]
  /\ obs = [op |-> "Init", rc |-> OK, eof |-> FALSE, out |-> <<>>, pos |-> 0,
            epoch |-> 0, failed |-> OK, phase |-> "write", waited |-> FALSE, hnf |-> FALSE,
            res |-> 0, arg |-> NoArg]
  /\ px \in {PxOf(t) : t \in ExprTrees}
  /\ pma = PmaZero
  /\ mem = MemZero

SorterVars == <<cfg, input, sorter, task, eng, incr, disk, arena, main, csr, obs, pma, mem>>

\* sqlite3ExprDup of T
DupTree ==
  /\ px.h.err = {}
  /\ ~px.delT
  /\ px.C = 0
  /\ \E d \in {sqlite3ExprDup(px.h, px.T)} :
       px' = [px EXCEPT !.h = d.h, !.C = d.p, !.op = "Dup"]
  /\ UNCHANGED SorterVars

\* sqlite3ExprCompare of T and its copy
CompareTrees ==
  /\ px.h.err = {}
  /\ px.C # 0
  /\ ~px.delT
  /\ ~px.delC
  /\ px' = [px EXCEPT !.res = IF sqlite3ExprCompare(px.h, px.T, px.C) THEN 1 ELSE 0,
                      !.op = "Compare"]
  /\ UNCHANGED SorterVars

\* sqlite3ExprDelete of T
DeleteTree ==
  /\ px.h.err = {}
  /\ ~px.delT
  /\ px' = [px EXCEPT !.h = sqlite3ExprDelete(px.h, px.T), !.delT = TRUE, !.op = "Delete"]
  /\ UNCHANGED SorterVars

\* sqlite3ExprDelete of the copy
DeleteCopy ==
  /\ px.h.err = {}
  /\ px.C # 0
  /\ ~px.delC
  /\ px' = [px EXCEPT !.h = sqlite3ExprDelete(px.h, px.C), !.delC = TRUE, !.op = "Delete"]
  /\ UNCHANGED SorterVars

\* sqlite3ExprResolveIds of T against the tables and the result columns; the
\* names of a tree are resolved before the tree is copied
Resolve ==
  /\ px.h.err = {}
  /\ ~px.delT
  /\ px.C = 0
  /\ px.runs < MaxResolve
  /\ px.rc # 1
  /\ \E r \in {sqlite3ExprResolveIds(px.h, px.P, SrcTables, px.E, px.T)} :
       px' = [px EXCEPT !.h = r.h, !.P = r.P, !.rc = r.rc, !.runs = @ + 1,
                        !.op = "Resolve"]
  /\ UNCHANGED SorterVars

ExprNext ==
  \/ Resolve
  \/ DupTree
  \/ CompareTrees
  \/ DeleteTree
  \/ DeleteCopy

ExprSpec == ExprInit /\ [][ExprNext]_vars

----------------------------------------------------------------------------
(* sqlite3ExprType on the trees of TypeTrees *)

\* sqlite3ExprType is called at most this often on one tree
MaxType == 2

TypeInit ==
  /\ cfg = Config(0, 0, FALSE, FALSE)
  /\ input = <<>>
  /\ sorter = SorterInit(cfg)
  /\ task = [i \in 0..cfg.nWorker |-> TaskZero]
  /\ eng = EmptyMap
  /\ incr = EmptyMap
  /\ disk = EmptyMap
  /\ arena = Put(EmptyMap, 1, cfg.pgsz)
  /\ main = MainZero
  /\ csr = [pSorter |-> 1, pKeyInfo |-> [nField |-> 1]]
  /\ obs = [op |-> "Init", rc |-> OK, eof |-> FALSE, out |-> <<>>, pos |-> 0,
            epoch |-> 0, failed |-> OK, phase |-> "write", waited |-> FALSE, hnf |-> FALSE,
            res |-> 0, arg |-> NoArg]
  /\ px \in {PxOf(t) : t \in TypeTrees}
  /\ pma = PmaZero
  /\ mem = MemZero

\* sqlite3ExprCheck of T once its names are resolved
Check ==
  /\ px.h.err = {}
  /\ ~px.delT
  /\ px.rc = 0
  /\ px.chk = -1
  /\ \E allowAgg \in BOOLEAN :
     \E c \in {sqlite3ExprCheck(px.h, px.P, px.T, allowAgg, 0)} :
       px' = [px EXCEPT !.h = c.h, !.P = c.P, !.chk = c.nErr, !.isAgg = c.isAgg,
                        !.op = "Check"]
  /\ UNCHANGED SorterVars

\* sqlite3ExprType of T, after sqlite3ExprResolveIds and sqlite3ExprCheck
TypeOf ==
  /\ px.h.err = {}
  /\ ~px.delT
  /\ px.rc = 0
  /\ px.chk = 0
  /\ px.ntype < MaxType
  /\ px' = [px EXCEPT !.type = sqlite3ExprType(px.h, px.T), !.ntype = @ + 1, !.op = "Type"]
  /\ UNCHANGED SorterVars

TypeNext ==
  \/ Resolve
  \/ Check
  \/ TypeOf

TypeSpec == TypeInit /\ [][TypeNext]_vars

----------------------------------------------------------------------------
(* sqlite3ExprAnalyzeAggregates on the trees of AggTrees *)

\* sqlite3ExprAnalyzeAggregates is called at most this often on one tree
MaxAnalyze == 2

\* The state after the parser has built one of the trees
TreeInit(trees) ==
  /\ cfg = Config(0, 0, FALSE, FALSE)
  /\ input = <<>>
  /\ sorter = SorterInit(cfg)
  /\ task = [i \in 0..cfg.nWorker |-> TaskZero]
  /\ eng = EmptyMap
  /\ incr = EmptyMap
  /\ disk = EmptyMap
  /\ arena = Put(EmptyMap, 1, cfg.pgsz)
  /\ main = MainZero
  /\ csr = [pSorter |-> 1, pKeyInfo |-> [nField |-> 1]]
  /\ obs = [op |-> "Init", rc |-> OK, eof |-> FALSE, out |-> <<>>, pos |-> 0,
            epoch |-> 0, failed |-> OK, phase |-> "write", waited |-> FALSE, hnf |-> FALSE,
            res |-> 0, arg |-> NoArg]
  /\ px \in {PxOf(t) : t \in trees}
  /\ pma = PmaZero
  /\ mem = MemZero

AggInit == TreeInit(AggTrees)

\* sqlite3ExprAnalyzeAggregates of T, after sqlite3ExprResolveIds and
\* sqlite3ExprCheck
Analyze ==
  /\ px.h.err = {}
  /\ ~px.delT
  /\ px.rc = 0
  /\ px.chk = 0
  /\ px.nagg < MaxAnalyze
  /\ \E r \in {sqlite3ExprAnalyzeAggregates(px.h, px.P, px.T)} :
       px' = [px EXCEPT !.h = r.h, !.P = r.P, !.agg = r.nErr, !.nagg = @ + 1,
                        !.op = "Analyze"]
  /\ UNCHANGED SorterVars

AggNext ==
  \/ Resolve
  \/ Check
  \/ Analyze

AggSpec == AggInit /\ [][AggNext]_vars

----------------------------------------------------------------------------
(* The code that sqlite3ExprCode, sqlite3ExprIfTrue and sqlite3ExprIfFalse *)
(* generate for the trees of CodeTrees, and its execution by the VDBE on a *)
(* row of t1 and t2                                                        *)

CodeInit == TreeInit(CodeTrees)

\* The caller of a branch emitter: a label for the jump, the code of the
\* test, then the code of the fall-through and the code at the label
Branch(emit(_, _, _, _, _), name) ==
  /\ px.h.err = {}
  /\ px.rc = 0
  /\ px.gen = "none"
  /\ \E jumpIfNull \in {0, 1}, ff \in {3, 4} :
     \E d \in {sqlite3VdbeMakeLabel([px.P EXCEPT !.file_format = ff])} :
     \E g \in {emit(px.h, d.P, px.T, d.x, jumpIfNull)} :
     \E r \in {sqlite3VdbeResolveLabel(sqlite3VdbeAddOp(g, "OP_Halt", 0, 0), d.x)} :
       px' = [px EXCEPT !.P = sqlite3VdbeAddOp(r, "OP_Halt", 1, 0), !.gen = name,
                        !.jin = jumpIfNull, !.op = name]
  /\ UNCHANGED SorterVars

\* sqlite3ExprIfTrue of T
GenIfTrue == Branch(sqlite3ExprIfTrue, "IfTrue")

\* sqlite3ExprIfFalse of T
GenIfFalse == Branch(sqlite3ExprIfFalse, "IfFalse")

\* sqlite3ExprCode of T
GenCode ==
  /\ px.h.err = {}
  /\ px.rc = 0
  /\ px.gen = "none"
  /\ \E ff \in {3, 4} :
       px' = [px EXCEPT !.P = sqlite3VdbeAddOp(
                                sqlite3ExprCode(px.h, [px.P EXCEPT !.file_format = ff], px.T),
                                "OP_Halt", 2, 0),
                        !.gen = "Code", !.op = "Code"]
  /\ UNCHANGED SorterVars

\* sqlite3VdbeExec starts on a row
Start ==
  /\ px.gen # "none"
  /\ px.vm.st = "none"
  /\ \A j \in DOMAIN px.P.pVdbe.aOp : px.P.pVdbe.aOp[j].opcode \in Executable
  /\ \E env \in Rows, below \in Below :
       px' = [px EXCEPT !.vm = [VmZero EXCEPT !.env = env, !.st = "run", !.stack = below,
                                              !.base = Len(below)],
                        !.op = "Start"]
  /\ UNCHANGED SorterVars

\* sqlite3VdbeExec runs the instruction at pc
Step ==
  /\ px.vm.st = "run"
  /\ px.vm.pc < Len(px.P.pVdbe.aOp)
  /\ \E hit \in (IF px.P.pVdbe.aOp[px.vm.pc + 1].opcode \in Lookups THEN BOOLEAN ELSE {FALSE}) :
       px' = [px EXCEPT !.vm = VdbeExec([px.vm EXCEPT !.ran = @ \cup {px.vm.pc}, !.hit = hit],
                                        px.P.pVdbe.aOp[px.vm.pc + 1]),
                        !.op = "Step"]
  /\ UNCHANGED SorterVars

CodeNext ==
  \/ Resolve
  \/ GenIfTrue
  \/ GenIfFalse
  \/ GenCode
  \/ Start
  \/ Step

CodeSpec == CodeInit /\ [][CodeNext]_vars

----------------------------------------------------------------------------
(* PMAs written to a file and read back, byte by byte *)

\* Records of a PMA and PMAs of a file
MaxPmaRecs == 3
MaxPmas == 2

\* Page sizes below and above the 9 bytes a varint can take, record lengths
\* below, at and above a page, with varints of one and of two bytes, and
\* the bytes already in the file before the first PMA
PageSizes == {8, 16, 32}
RecLens == {1, 9, 130}
StartOffsets == {0, 3, 8, 29}

\* The record of n bytes written at place tag of its list
RecBytes(tag, n) == Tup([i \in 1..n |-> (tag * 64 + i * 37) % 256])
PmaLists ==
  UNION {{Tup([i \in 1..len |-> RecBytes(i, ns[i])]) : ns \in [1..len -> RecLens]}
         : len \in 1..MaxPmaRecs}

\* The list of the next PMA: the list before it with its first record last
Rotate(l) == Tail(l) \o <<Head(l)>>

PmaInit ==
  /\ cfg = Config(0, 0, FALSE, FALSE)
  /\ input = <<>>
  /\ sorter = SorterInit(cfg)
  /\ task = [i \in 0..cfg.nWorker |-> TaskZero]
  /\ eng = EmptyMap
  /\ incr = EmptyMap
  /\ disk = EmptyMap
  /\ arena = Put(EmptyMap, 1, cfg.pgsz)
  /\ main = MainZero
  /\ csr = [pSorter |-> 1, pKeyInfo |-> [nField |-> 1]]
  /\ obs = [op |-> "Init", rc |-> OK, eof |-> FALSE, out |-> <<>>, pos |-> 0,
            epoch |-> 0, failed |-> OK, phase |-> "write", waited |-> FALSE, hnf |-> FALSE,
            res |-> 0, arg |-> NoArg]
  /\ px = PxZero
  /\ \E pgsz \in PageSizes, bMap \in BOOLEAN, l \in PmaLists, iStart \in StartOffsets :
       pma = [PmaZero EXCEPT !.pgsz = pgsz, !.bMap = bMap, !.list = l,
                             !.f = Bytes(iStart, 129), !.iEof = iStart, !.pc = "write"]
  /\ mem = MemZero

PmaVars == <<cfg, input, sorter, task, eng, incr, disk, arena, main, csr, obs, px, mem>>

\* vdbeSorterListToPMA appends the list to the file as one more PMA
PmaFlush ==
  /\ pma.pc = "write"
  /\ Len(pma.at) < MaxPmas
  /\ \E w \in {WritePMA(pma.f, pma.pgsz, pma.iEof, pma.list)} :
       pma' = [pma EXCEPT !.f = w.f, !.iEof = w.iEof,
                          !.at = Append(pma.at, pma.iEof),
                          !.wrote = Append(pma.wrote, pma.list),
                          !.list = Rotate(pma.list)]
  /\ UNCHANGED PmaVars

\* The caller of the reader takes the key it is at, if it is at one
Taken(R, out) == IF R.r.pFile # 0 THEN Append(out, KeyOf(R)) ELSE out

\* vdbePmaReaderInit on PMA k of the file
PmaOpen ==
  /\ pma.pc = "write"
  /\ \E k \in 1..Len(pma.at) :
     \E R \in {PmaReaderInit([r |-> PmaReaderZero, f |-> pma.f, x |-> {}],
                             pma.pgsz, pma.bMap, pma.iEof, pma.at[k])} :
       pma' = [pma EXCEPT !.r = R.r, !.x = R.x, !.k = k, !.out = Taken(R, <<>>),
                          !.pc = IF R.r.pFile # 0 THEN "read" ELSE "eof"]
  /\ UNCHANGED PmaVars

\* vdbePmaReaderNext
PmaNext ==
  /\ pma.pc = "read"
  /\ \E R \in {PmaReaderNext([r |-> pma.r, f |-> pma.f, x |-> pma.x])} :
       pma' = [pma EXCEPT !.r = R.r, !.x = R.x, !.out = Taken(R, pma.out),
                          !.pc = IF R.r.pFile # 0 THEN "read" ELSE "eof"]
  /\ UNCHANGED PmaVars

PmaStep ==
  \/ PmaFlush
  \/ PmaOpen
  \/ PmaNext

PmaSpec == PmaInit /\ [][PmaStep]_vars

----------------------------------------------------------------------------
(* Merge trees over many level-0 PMAs: one record to a PMA, and more PMAs  *)
(* than SORTER_MAX_MERGE_COUNT * SORTER_MAX_MERGE_COUNT, so that the tree  *)
(* of the subtask gets a third level of merge engines.                     *)

MaxTreePMA == 258

DeepInputs == {[i \in 1..MaxTreePMA |-> [key |-> LongKey(1, i), tag |-> i, n |-> BigRec]]}

DepthInit ==
  /\ cfg = Config(0, 0, FALSE, FALSE)
  /\ input \in DeepInputs
  /\ sorter = SorterInit(cfg)
  /\ task = [i \in 0..cfg.nWorker |-> TaskZero]
  /\ eng = EmptyMap
  /\ incr = EmptyMap
  /\ disk = EmptyMap
  /\ arena = IF sorter.list.aMemory # 0 THEN Put(EmptyMap, 1, cfg.pgsz) ELSE EmptyMap
  /\ main = MainZero
  /\ csr = [pSorter |-> 1, pKeyInfo |-> [nField |-> 1]]
  /\ obs = [op |-> "Init", rc |-> OK, eof |-> FALSE, out |-> <<>>, pos |-> 0,
            epoch |-> 0, failed |-> OK, phase |-> "write", waited |-> FALSE, hnf |-> FALSE,
            res |-> 0, arg |-> NoArg]
  /\ px = PxZero
  /\ pma = PmaZero
  /\ mem = MemZero

\* Rewind() after any number of Write() calls
DepthNext ==
  \/ Write
  \/ Rewind

DepthSpec == DepthInit /\ [][DepthNext]_vars

----------------------------------------------------------------------------
(* Threads in sqlite3Malloc, sqlite3_free and sqlite3MemoryAlarm.  What a  *)
(* thread does between sqlite3_mutex_enter and sqlite3_mutex_leave is one  *)
(* step; an alarm callback runs between two such steps.                    *)

\* the innermost call of sqlite3Malloc that thread t is inside
Top(m, t) == m.thr[t][Len(m.thr[t])]
WithTop(m, t, f) == [m EXCEPT !.thr[t][Len(m.thr[t])] = f]

AllocVars == <<cfg, input, sorter, task, eng, incr, disk, arena, main, csr, obs, px, pma>>

\* thread t is outside the allocator, or inside an alarm callback that the
\* allocator has called
CanCall(t) == IF mem.thr[t] = <<>> THEN TRUE ELSE Top(mem, t).pc = "xCallback"

\* sqlite3MallocAlarm(nByte), called with the mutex held; the caller goes on
\* at `then` when it returns
sqlite3MallocAlarm(m, t, nByte, then) ==
  IF m.mem0.alarmCallback = "0" THEN WithTop(m, t, [Top(m, t) EXCEPT !.pc = then])
  ELSE WithTop([m EXCEPT !.mem0.alarmCallback = "0", !.mem0.mutex = 0], t,
               [Top(m, t) EXCEPT !.pc = "xCallback", !.then = then,
                                 !.xCallback = m.mem0.alarmCallback,
                                 !.pArg = m.mem0.alarmArg,
                                 !.nowUsed = m.used, !.nByte = nByte])

\* mallocWithAlarm(n, &p) up to the call of xMalloc
mallocWithAlarm(m, t, nFull) ==
  IF m.mem0.alarmCallback # "0" /\ m.used + nFull >= m.mem0.alarmThreshold
  THEN sqlite3MallocAlarm(m, t, nFull, "xMalloc")
  ELSE WithTop(m, t, [Top(m, t) EXCEPT !.pc = "xMalloc"])

\* the end of mallocWithAlarm and of sqlite3Malloc: the statistics, the
\* mutex is left, and the caller has p
MallocDone(m, t, p) ==
  [m EXCEPT !.used = IF p THEN @ + Top(m, t).nFull ELSE @,
            !.live[Top(m, t).nFull] = IF p THEN @ + 1 ELSE @,
            !.mem0.mutex = 0,
            !.thr[t] = SubSeq(@, 1, Len(@) - 1)]

\* xMalloc(nFull) of the system: it can fail at any time, and it fails when
\* the heap is full
xMalloc(m, nFull) == IF m.used + nFull <= HeapSize THEN BOOLEAN ELSE {FALSE}

\* a thread calls sqlite3Malloc(n), from outside or from an alarm callback
MallocCall ==
  \E t \in Threads, n \in AskSizes :
    /\ CanCall(t)
    /\ Len(mem.thr[t]) < MaxDepth
    /\ mem' = [mem EXCEPT !.thr[t] = Append(@, [pc |-> "enter", n |-> n, nFull |-> xRoundup(n),
                                                then |-> "", xCallback |-> "0", pArg |-> 0,
                                                nowUsed |-> 0, nByte |-> 0]),
                          !.op = "sqlite3Malloc"]
    /\ UNCHANGED AllocVars

\* sqlite3_mutex_enter(mem0.mutex) in sqlite3Malloc, and mallocWithAlarm up
\* to xMalloc or to the callback
MallocEnter ==
  \E t \in Threads :
    /\ mem.thr[t] # <<>>
    /\ Top(mem, t).pc = "enter"
    /\ mem.mem0.mutex = 0
    /\ mem' = [mallocWithAlarm([mem EXCEPT !.mem0.mutex = t], t, Top(mem, t).nFull)
                 EXCEPT !.op = "enter"]
    /\ UNCHANGED AllocVars

\* the alarm callback returns into sqlite3MallocAlarm: the mutex is entered
\* and the callback and its argument are put back
CallbackReturn ==
  \E t \in Threads :
    /\ mem.thr[t] # <<>>
    /\ Top(mem, t).pc = "xCallback"
    /\ mem.mem0.mutex = 0
    /\ mem' = WithTop([mem EXCEPT !.mem0.mutex = t,
                                  !.mem0.alarmCallback = Top(mem, t).xCallback,
                                  !.mem0.alarmArg = Top(mem, t).pArg,
                                  !.op = "return"],
                      t, [Top(mem, t) EXCEPT !.pc = Top(mem, t).then])
    /\ UNCHANGED AllocVars

\* mallocWithAlarm calls xMalloc; when it fails and there is an alarm
\* callback, sqlite3MallocAlarm is called before the second try
MallocTry ==
  \E t \in Threads :
    /\ mem.thr[t] # <<>>
    /\ Top(mem, t).pc = "xMalloc"
    /\ \E p \in xMalloc(mem, Top(mem, t).nFull) :
         mem' = [(IF ~p /\ mem.mem0.alarmCallback # "0"
                  THEN sqlite3MallocAlarm(mem, t, Top(mem, t).nFull, "retry")
                  ELSE MallocDone(mem, t, p))
                   EXCEPT !.op = "xMalloc"]
    /\ UNCHANGED AllocVars

\* the second xMalloc of mallocWithAlarm
MallocRetry ==
  \E t \in Threads :
    /\ mem.thr[t] # <<>>
    /\ Top(mem, t).pc = "retry"
    /\ \E p \in xMalloc(mem, Top(mem, t).nFull) :
         mem' = [MallocDone(mem, t, p) EXCEPT !.op = "retry"]
    /\ UNCHANGED AllocVars

\* sqlite3_free of a live allocation, from outside or from an alarm callback
Free ==
  \E t \in Threads, z \in FullSizes :
    /\ CanCall(t)
    /\ mem.mem0.mutex = 0
    /\ mem.live[z] > 0
    /\ mem' = [mem EXCEPT !.used = @ - z, !.live[z] = @ - 1, !.op = "sqlite3_free"]
    /\ UNCHANGED AllocVars

\* sqlite3MemoryAlarm, called by a thread that is outside the allocator
sqlite3MemoryAlarm ==
  \E t \in Threads, a \in Alarms :
    /\ mem.thr[t] = <<>>
    /\ mem.mem0.mutex = 0
    /\ mem' = [mem EXCEPT !.mem0.alarmCallback = a.xCallback,
                          !.mem0.alarmArg = a.pArg,
                          !.mem0.alarmThreshold = a.iThreshold,
                          !.op = "sqlite3MemoryAlarm"]
    /\ UNCHANGED AllocVars

AlarmInit ==
  /\ cfg = Config(0, 0, FALSE, FALSE)
  /\ input = <<>>
  /\ sorter = SorterInit(cfg)
  /\ task = [i \in 0..cfg.nWorker |-> TaskZero]
  /\ eng = EmptyMap
  /\ incr = EmptyMap
  /\ disk = EmptyMap
  /\ arena = IF sorter.list.aMemory # 0 THEN Put(EmptyMap, 1, cfg.pgsz) ELSE EmptyMap
  /\ main = MainZero
  /\ csr = [pSorter |-> 1, pKeyInfo |-> [nField |-> 1]]
  /\ obs = [op |-> "Init", rc |-> OK, eof |-> FALSE, out |-> <<>>, pos |-> 0,
            epoch |-> 0, failed |-> OK, phase |-> "write", waited |-> FALSE, hnf |-> FALSE,
            res |-> 0, arg |-> NoArg]
  /\ px = PxZero
  /\ pma = PmaZero
  /\ mem = MemZero

AlarmNext ==
  \/ MallocCall
  \/ MallocEnter
  \/ CallbackReturn
  \/ MallocTry
  \/ MallocRetry
  \/ Free
  \/ sqlite3MemoryAlarm

AlarmSpec == AlarmInit /\ [][AlarmNext]_vars

\* The same with the alarm set once, before the first allocation, and no
\* call of sqlite3MemoryAlarm after it
QuietInit ==
  /\ AlarmInit!1 /\ AlarmInit!2 /\ AlarmInit!3 /\ AlarmInit!4 /\ AlarmInit!5
  /\ AlarmInit!6 /\ AlarmInit!7 /\ AlarmInit!8 /\ AlarmInit!9 /\ AlarmInit!10
  /\ AlarmInit!11 /\ AlarmInit!12 /\ AlarmInit!13
  /\ \E a \in Alarms :
       mem = [MemZero EXCEPT !.mem0.alarmCallback = a.xCallback, !.mem0.alarmArg = a.pArg,
                             !.mem0.alarmThreshold = a.iThreshold]

QuietNext ==
  \/ MallocCall
  \/ MallocEnter
  \/ CallbackReturn
  \/ MallocTry
  \/ MallocRetry
  \/ Free

QuietSpec == QuietInit /\ [][QuietNext]_vars

----------------------------------------------------------------------------
(* Properties *)

\* The records handed to Write() since Init or the last Reset
Written == SubSeq(input, 1, obs.pos)

\* No I/O failure has been injected and no assert() has failed
Healthy == main.nf = 0 /\ main.x = {}

Reading == obs.phase \in {"read", "eof"}

\* A reference: insertion sort that puts a record behind the records with a
\* smaller or equal key
RECURSIVE InsertBehind(_, _)
InsertBehind(sorted, r) ==
  IF sorted = <<>> THEN <<r>>
  ELSE IF Head(sorted).key <= r.key THEN <<Head(sorted)>> \o InsertBehind(Tail(sorted), r)
  ELSE <<r>> \o sorted

RECURSIVE StableSorted(_)
StableSorted(l) ==
  IF l = <<>> THEN <<>>
  ELSE InsertBehind(StableSorted(SubSeq(l, 1, Len(l) - 1)), l[Len(l)])

\* C1: every key exposed after a Next compares greater than or equal to the
\* key exposed just before it, in every configuration
C1_Monotonic ==
  Healthy =>
    \A n \in 1..(Len(obs.out) - 1) :
      sqlite3VdbeRecordCompare(obs.out[n], obs.out[n + 1]) <= 0

\* C1 witness: a multi-threaded sort that spilled has exposed at least three
\* keys, not all of them equal
C1_Witness ==
  /\ Healthy
  /\ sorter.bUseThreads = 1
  /\ sorter.bUsePMA = 1
  /\ obs.op = "Next"
  /\ Len(obs.out) >= 3
  /\ obs.out[1].key # obs.out[Len(obs.out)].key

\* C2: the keys read after Rewind are the written records, each exactly once
\* and with identical bytes, and eof is reported exactly when all of them
\* have been read; without an injected fault no call fails
C2_Permutation ==
  /\ Healthy => obs.rc = OK
  /\ (Healthy /\ Reading) =>
    /\ \A n \in 1..Len(obs.out) : obs.out[n] \in {Written[k] : k \in 1..obs.pos}
    /\ \A n, k \in 1..Len(obs.out) : obs.out[n] = obs.out[k] => n = k
    /\ (obs.phase = "eof") => (Len(obs.out) = obs.pos)
    /\ obs.eof = (obs.phase = "eof")

\* C2 witness: a spilled sort of MaxLen records has been read to eof
C2_Witness ==
  /\ Healthy
  /\ obs.phase = "eof"
  /\ sorter.bUsePMA = 1
  /\ obs.pos = MaxLen
  /\ Len(obs.out) = MaxLen

\* C3: with one subtask, records with equal keys are returned in the order
\* in which they were written
C3_Stable ==
  (Healthy /\ sorter.bUseThreads = 0) =>
    \A n, k \in 1..Len(obs.out) :
      (n < k /\ obs.out[n].key = obs.out[k].key) => obs.out[n].tag < obs.out[k].tag

\* C3 witness: a single-threaded sort merged by two levels of merge engines
\* has returned equal keys that came from different PMAs
C3_Witness ==
  /\ Healthy
  /\ sorter.bUseThreads = 0
  /\ obs.phase = "eof"
  /\ Len(obs.out) = LongLen
  /\ \E n \in 1..(LongLen - 1) : obs.out[n].key = obs.out[n + 1].key

\* C4: the output of a single-threaded sort is a function of the input alone:
\* it is the same whether mxPmaSize is 0, small, or never reached
C4_ThresholdFree ==
  (Healthy /\ sorter.bUseThreads = 0 /\ obs.phase = "eof") =>
    obs.out = StableSorted(Written)

\* C4 witness: an input read to eof from several PMAs (finite threshold),
\* where the records did not arrive in sorted order
C4_Witness ==
  /\ Healthy
  /\ sorter.bUseThreads = 0
  /\ obs.phase = "eof"
  /\ task[0].nPMA >= 2
  /\ obs.pos = MaxLen
  /\ obs.out # Written

\* C5: Reset returns the sorter to the state produced by Init: no subtask
\* keeps a PMA count, and the calls that follow a Reset violate no internal
\* assertion
C5_ResetIsInit ==
  /\ (obs.op = "Reset" /\ main.nf = 0) =>
       \* the size and the address of the arena and the round-robin position
       \* are not compared
       /\ sorter = [SorterInit(cfg) EXCEPT !.nMemory = sorter.nMemory,
                                           !.iPrev = sorter.iPrev,
                                           !.list.aMemory = sorter.list.aMemory]
       /\ (sorter.list.aMemory # 0) = (SorterInit(cfg).list.aMemory # 0)
       /\ \A i \in Tasks : task[i] = TaskZero
  /\ (obs.epoch > 0 /\ main.nf = 0) => main.x = {}

\* C6: once a Write, Rewind or Next has returned a non-OK status, every
\* later Write, Rewind or Next returns the same status and leaves the sorter
\* state unchanged
C6_StickyError ==
  [][(obs.failed # OK /\ obs' # obs /\ obs'.op \in {"Write", "Rewind", "Next"})
       => (obs'.rc = obs.failed /\ sorter' = sorter /\ task' = task /\ disk' = disk)]_vars

Outstanding == {i \in Tasks : task[i].pThread # 0}

\* C7: when Reset or Close returns, every thread has been joined, no temp file
\* is open and no reader, merge engine or IncrMerger is allocated; Close
\* also detaches the sorter from the cursor
C7_Released ==
  (obs.op \in {"Reset", "Close"}) =>
    /\ main.pc = "idle"
    /\ Outstanding = {}
    /\ \A i \in Tasks : task[i].bDone = 0 /\ task[i].file.pFd = 0 /\ task[i].file2.pFd = 0
    /\ disk = EmptyMap
    /\ eng = EmptyMap
    /\ incr = EmptyMap
    /\ sorter.pReader = 0
    /\ sorter.pMerger = 0
    /\ (obs.op = "Close") => (csr.pSorter = 0 /\ arena = EmptyMap)

\* C7 witness: Close has returned after a fault was injected and after it had
\* to wait for a thread that was still running
C7_Witness ==
  /\ obs.op = "Close"
  /\ obs.waited
  /\ main.nf > 0
  /\ sorter.bUseThreads = 1

\* a PmaReader at EOF has no file
Live(e) == {n \in 0..(eng[e].nTree - 1) : eng[e].aIter[n].pFile # 0}

\* C8: once the merge tree is initialised, and after every advance, aTree[1]
\* of every merge engine names a reader that is not at EOF if there is one,
\* and no other reader that is not at EOF has a smaller key
C8_TreeRoot ==
  (Healthy /\ Reading) =>
    \A e \in DOMAIN eng :
      Live(e) # {} =>
        /\ eng[e].aTree[1] \in Live(e)
        /\ \A n \in Live(e) :
             sqlite3VdbeRecordCompare(eng[e].aIter[eng[e].aTree[1]].aKey,
                                      eng[e].aIter[n].aKey) <= 0

\* C8 witness: after an advance, a merge engine built for more than two
\* readers has a reader at EOF and two that are not, with different keys
C8_Witness ==
  /\ Healthy
  /\ obs.op = "Next"
  /\ \E e \in DOMAIN eng :
       /\ eng[e].nTree >= 4
       /\ Cardinality(Live(e)) = 2
       /\ \E n, k \in Live(e) : eng[e].aIter[n].aKey.key # eng[e].aIter[k].aKey.key

\* threads that were created and have not returned yet
Alive == {i \in Tasks : task[i].pThread # 0 /\ task[i].bDone = 0}

OneThreadPerSubtask == "assert pThread==0 && bDone==0" \notin main.x

\* C9 as stated: with N subtasks at most N-1 background threads are alive at
\* every moment, and no subtask has more than one thread outstanding
C9_AtMostNminus1 ==
  sorter.bUseThreads = 1 =>
    /\ Cardinality(Alive) <= sorter.nTask - 1
    /\ OneThreadPerSubtask

\* C9 amended: at most N-1 threads are alive until Rewind is called, at most
\* N after that, and no subtask has more than one thread outstanding
C9_AtMostN ==
  sorter.bUseThreads = 1 =>
    /\ (obs.phase = "write" /\ main.op # "Rewind") => Cardinality(Alive) <= sorter.nTask - 1
    /\ Cardinality(Alive) <= sorter.nTask
    /\ OneThreadPerSubtask

\* C9 witness: in the read phase every subtask has a running thread
C9_Witness ==
  /\ sorter.bUseThreads = 1
  /\ Reading
  /\ Alive = Tasks

FlushOutstanding(i) == task[i].pThread # 0 /\ task[i].thr.kind = "flush"

Records(l) == {l[n] : n \in 1..Len(l)}

\* between vdbeSorterCreateThread and the join: nothing is shared
HandedOff ==
  /\ "main thread uses a subtask whose flush worker is not joined" \notin main.x
  /\ \A i \in Tasks :
       FlushOutstanding(i) =>
         /\ Records(sorter.list.pList) \cap Records(task[i].list.pList) = {}
         /\ task[i].list.aMemory # 0 => sorter.list.aMemory # task[i].list.aMemory
         /\ task[i].list.aMemory # 0 => task[i].list.aMemory \in DOMAIN arena

\* a step taken while the flush worker of subtask i runs, by anyone else
NotTouched(i) ==
  (FlushOutstanding(i) /\ task[i].bDone = 0 /\ task'[i].bDone = 0) =>
    /\ task'[i].list = task[i].list
    /\ task'[i].file = task[i].file
    /\ task'[i].file2 = task[i].file2
    /\ task'[i].nPMA = task[i].nPMA

\* C10: while a flush worker of subtask i is created and not joined, the main
\* thread uses none of the subtask's list, file, file2 and nPMA, and the
\* sorter's list shares no record and no arena with the subtask's list
C10_Handoff == [][HandedOff' /\ \A i \in Tasks : NotTouched(i)]_vars

\* C10 witness: a worker holds a list and an arena while the sorter's list
\* has a record in another arena
C10_Witness ==
  \E i \in Tasks :
    /\ FlushOutstanding(i)
    /\ task[i].bDone = 0
    /\ task[i].list.pList # <<>>
    /\ task[i].list.aMemory # 0
    /\ sorter.list.pList # <<>>
    /\ sorter.list.aMemory # 0

\* every PmaReader there is: the readers of the merge engines and pSorter->pReader
AllReaders ==
  {eng[e].aIter[n] : <<e, n>> \in {<<e, n>> \in (DOMAIN eng) \X (0..(SORTER_MAX_MERGE_COUNT - 1)) : n < eng[e].nTree}}
    \cup {sorter.rdr}

\* the IncrMerger that the thread of subtask i fills, or 0
PopulatedBy(i) ==
  IF task[i].pThread = 0 THEN 0
  ELSE IF task[i].thr.kind = "populate" THEN task[i].thr.arg
  ELSE IF task[i].thr.kind = "bginit"
  THEN eng[incr[sorter.rdr.pIncr].pMerger].aIter[task[i].thr.arg].pIncr
  ELSE 0

\* while a populate thread is not joined, no reader is on the file it fills;
\* a PMA cut short by an injected write failure is not a record read too early
NoSharedFile ==
  /\ main.nf = 0 => "read of bytes never written" \notin main.x
  /\ main.nf = 0 => "write to a closed file" \notin main.x
  /\ \A i \in Tasks :
       PopulatedBy(i) # 0 =>
         /\ PopulatedBy(i) \in DOMAIN incr
         /\ incr[PopulatedBy(i)].bUseThread = 1
         /\ incr[PopulatedBy(i)].aFile[1].pFd # 0 =>
              /\ incr[PopulatedBy(i)].aFile[0].pFd # incr[PopulatedBy(i)].aFile[1].pFd
              /\ \A r \in AllReaders : r.pFile # incr[PopulatedBy(i)].aFile[1].pFd

\* a step that joins the populate thread of subtask i and starts the next one
\* has swapped the two files of the IncrMerger in between
SwapBeforeRestart(i) ==
  (/\ task[i].pThread # 0 /\ task[i].thr.kind = "populate" /\ task[i].bDone = 1
   /\ task'[i].pThread # 0 /\ task'[i].thr.kind = "populate" /\ task'[i].bDone = 0
   /\ task'[i].thr.arg = task[i].thr.arg) =>
     /\ incr'[task[i].thr.arg].aFile[0].pFd = incr[task[i].thr.arg].aFile[1].pFd
     /\ incr'[task[i].thr.arg].aFile[1].pFd = incr[task[i].thr.arg].aFile[0].pFd
     /\ incr'[task[i].thr.arg].aFile[0].iEof = incr[task[i].thr.arg].aFile[1].iEof

\* C11: the reader of a multi-threaded IncrMerger takes over the file filled by
\* the populate thread only after joining it, the next populate thread starts
\* only after the swap, so the two never use the same file, and no record is
\* read before it was written
C11_JoinThenSwap == [][NoSharedFile' /\ \A i \in Tasks : SwapBeforeRestart(i)]_vars

\* C11 witness: a populate thread is running while a reader with a current key
\* is on the other file of the same IncrMerger, which an earlier thread filled
C11_Witness ==
  \E i \in Tasks :
    /\ task[i].pThread # 0
    /\ task[i].thr.kind = "populate"
    /\ task[i].bDone = 0
    /\ incr[task[i].thr.arg].aFile[0].iEof > 0
    /\ \E r \in AllReaders :
         /\ r.pIncr = task[i].thr.arg
         /\ r.pFile = incr[task[i].thr.arg].aFile[0].pFd
         /\ r.pFile # 0
         /\ r.aKey # NoKey

\* subtask i has a flush worker that failed and has not been joined
FailedFlush(i) ==
  /\ task[i].pThread # 0
  /\ task[i].thr.kind = "flush"
  /\ task[i].bDone = 1
  /\ task[i].thr.ret # OK

\* the call that joins a failed flush worker reports a failure, the worker's
\* own status if it is the only failure so far (Reset and Close return nothing)
NotLost ==
  \A i \in Tasks :
    (FailedFlush(i) /\ task'[i].pThread = 0) =>
      IF main'.pc # "idle"
      THEN main'.op \in {"Reset", "Close"}
             \/ (main'.rc # OK /\ (main.nf = 1 => main'.rc = task[i].thr.ret))
      ELSE obs'.op \in {"Reset", "Close"}
             \/ (obs'.rc # OK /\ (main.nf = 1 => obs'.rc = task[i].thr.ret))

\* a Rewind that returns after a flush failure was reported since Init/Reset
\* fails and leaves no merge tree
RewindFails ==
  (obs.op = "Rewind" /\ obs.failed # OK) =>
    /\ obs.rc # OK
    /\ eng = EmptyMap
    /\ sorter.pMerger = 0
    /\ sorter.pReader = 0

\* the first half of C12 on its own
FlushFailureNotLost == [][NotLost]_vars

\* C12: the failure of a flush worker is returned by the Write that joins the
\* worker or by Rewind, and Rewind never returns OK nor builds a merge tree
\* when a flush has failed since Init/Reset
C12_FlushFailureSurfaces == [][NotLost /\ RewindFails']_vars

\* the step is a call out of lifecycle order
OutOfOrder == obs.phase # "misused" /\ obs'.phase = "misused"

\* C13: a Write after Rewind, and a Next before Rewind or after eof, returns an
\* error status, is not executed and leaves the sorter as it was
C13_MisuseRejected ==
  [][OutOfOrder => (/\ obs'.rc # OK
                    /\ main'.x = main.x
                    /\ sorter' = sorter /\ task' = task /\ eng' = eng
                    /\ incr' = incr /\ disk' = disk /\ arena' = arena)]_vars

WriteStep == obs'.op = "Write" /\ obs'.pos = obs.pos + 1 /\ obs.phase = "write"

\* C14 as stated: with mxPmaSize = 0 every Write that finds records in memory
\* flushes them to a PMA, so that afterwards the list holds the new record only
C14_ZeroForcesSpill ==
  [][(sorter.mxPmaSize = 0 /\ WriteStep /\ sorter.list.pList # <<>>)
       => (sorter'.bUsePMA = 1 /\ Len(sorter'.list.pList) = 1)]_vars

\* C14: mxPmaSize = 0 means no limit: no Write flushes, the record is linked in
\* front of the in-memory list, and no PMA or temp file exists at any time
C14_ZeroNeverSpills ==
  [][/\ (sorter.mxPmaSize = 0 /\ WriteStep)
          => /\ sorter'.bUsePMA = 0
             /\ sorter'.list.pList = <<input[obs.pos + 1]>> \o sorter.list.pList
             /\ disk' = disk
             /\ \A i \in Tasks : task'[i].nPMA = task[i].nPMA /\ task'[i].pThread = 0
     /\ sorter'.mxPmaSize = 0 => (sorter'.bUsePMA = 0 /\ disk' = EmptyMap)]_vars

C14_Witness ==
  /\ sorter.mxPmaSize = 0
  /\ obs.op = "Write"
  /\ obs.pos = MaxLen
  /\ Len(sorter.list.pList) = MaxLen
  /\ \A k \in 1..MaxLen : input[k].n = BigRec

\* The PMAs of all subtasks
RECURSIVE SumPMA(_)
SumPMA(S) ==
  IF S = {} THEN 0
  ELSE Bind([i \in {CHOOSE i \in S : TRUE} |-> task[i].nPMA + SumPMA(S \ {i})])

CeilDiv(n, d) == (n + d - 1) \div d

\* mxPmaSize holds two records of SmallRec bytes and not three, whether a
\* record is counted with its SorterRecord header or with its varint
HoldsTwo ==
  /\ sorter.mxPmaSize \div (SmallRec + SZ_SORTER_RECORD) = 2
  /\ sorter.mxPmaSize \div (SmallRec + sqlite3VarintLen(SmallRec)) = 2

\* A first sort of equal-sized records has been rewound without a failure
EqualRewound ==
  /\ Healthy
  /\ obs.epoch = 0
  /\ Reading
  /\ HoldsTwo
  /\ \A k \in 1..obs.pos : input[k].n = SmallRec

C15_ArenaWitness ==
  /\ EqualRewound
  /\ obs.pos = 5
  /\ sorter.list.aMemory # 0
  /\ obs.phase = "eof"
  /\ SumPMA(Tasks) = 3

RewindStep == main.pc = "idle" /\ obs.phase = "write" /\ obs'.op = "Rewind" /\ obs'.phase # "write"
NextStep == obs.phase = "read" /\ obs'.op = "Next" /\ obs' # obs

\* Rewind and Next of a sorter that never flushed touch no file, no PMA, no
\* thread and no merge engine
InMemoryStep ==
  (sorter.bUsePMA = 0 /\ (RewindStep \/ NextStep)) =>
     /\ sorter'.bUsePMA = 0
     /\ disk' = disk
     /\ eng' = eng
     /\ incr' = incr
     /\ \A i \in Tasks : /\ task'[i].nPMA = task[i].nPMA
                        /\ task'[i].file = task[i].file
                        /\ task'[i].file2 = task[i].file2
                        /\ task'[i].pThread = task[i].pThread
     /\ RewindStep => /\ obs'.rc = OK
                      /\ obs'.eof = (obs.pos = 0)
                      /\ sorter'.list.pList = StableSorted(Written)
     /\ NextStep => /\ sorter'.list.pList = Tail(sorter.list.pList)
                    /\ obs'.eof = (sorter'.list.pList = <<>>)

\* While such a sorter is read, the current key is the head of the list
ServedFromList ==
  (Reading /\ sorter.bUsePMA = 0 /\ main.x = {}) =>
     /\ sorter.pReader = 0
     /\ sorter.pMerger = 0
     /\ obs.phase = "read" =>
          /\ sorter.list.pList # <<>>
          /\ obs.out[Len(obs.out)] = Head(sorter.list.pList)
          /\ SubSeq(obs.out, 1, Len(obs.out) - 1) \o sorter.list.pList = StableSorted(Written)
     /\ obs.phase = "eof" =>
          /\ sorter.list.pList = <<>>
          /\ obs.out = StableSorted(Written)

\* C16: when no flush happened during the write phase (bUsePMA = 0), Rewind
\* creates no temp file and no PMA, sorts the in-memory list in place, and
\* every later read is served from that list; Rewind reports eof exactly when
\* no record was written
C16_InMemoryRewind == [][InMemoryStep /\ ServedFromList']_vars

\* C16 witness: MaxLen records that were written out of order and never
\* flushed have been read to eof from the list
C16_Witness ==
  /\ sorter.bUsePMA = 0
  /\ obs.phase = "eof"
  /\ obs.op = "Next"
  /\ obs.pos = MaxLen
  /\ obs.out # Written
  /\ Len(obs.out) = MaxLen
  /\ disk = EmptyMap

\* Rewind of a sorter without records has reported eof
C16_EmptyWitness ==
  /\ sorter.bUsePMA = 0
  /\ obs.op = "Rewind"
  /\ obs.eof
  /\ obs.pos = 0

CompareStep == obs'.op = "Compare" /\ (obs' # obs \/ sorter' # sorter)

\* the fields of the current key that sqlite3VdbeSorterCompare compares
Compared == SubSeq(Fields(vdbeSorterRowkey(sorter, eng).key, csr.pKeyInfo.nField),
                   1, sorter'.pUnpacked.nField)

\* the comparator on the compared fields
ComparedResult ==
  Bind([v \in {SubSeq(Fields(obs'.arg.pVal.key, csr.pKeyInfo.nField),
                      1, sorter'.pUnpacked.nField)} |->
     IF Pack(v) < Pack(Compared) THEN -1 ELSE IF Pack(v) > Pack(Compared) THEN 1 ELSE 0])

C17_PlainWitness ==
  /\ obs.op = "Compare"
  /\ main.x = {}
  /\ vdbeSorterRowkey(sorter, eng).key = Pack(<<Mem(1), Mem(1)>>)
  /\ obs.arg.pVal.key = Pack(<<Mem(1), Mem(2)>>)
  /\ obs.res = 1

\* The objects and string buffers of the tree at p
RECURSIVE Cells(_, _)
ListCells(h, pList) ==
  IF pList = 0 \/ ~Allocated(h, pList) THEN {pList} \ {0}
  ELSE {pList}
       \cup UNION {Cells(h, h.hp[pList].a[i].pExpr) : i \in 1..Len(h.hp[pList].a)}
       \cup {h.hp[pList].a[i].zName.b : i \in 1..Len(h.hp[pList].a)}
Cells(h, p) ==
  IF p = 0 THEN {}
  ELSE IF ~Allocated(h, p) THEN {p}
  ELSE ({p, h.hp[p].token.z.b, h.hp[p].span.z.b}
        \cup Cells(h, h.hp[p].pLeft) \cup Cells(h, h.hp[p].pRight)
        \cup ListCells(h, h.hp[p].pList)
        \cup (IF h.hp[p].pSelect = 0 \/ ~Allocated(h, h.hp[p].pSelect) THEN {h.hp[p].pSelect}
              ELSE {h.hp[p].pSelect}
                   \cup ListCells(h, h.hp[h.hp[p].pSelect].pEList)
                   \cup Cells(h, h.hp[h.hp[p].pSelect].pWhere)))
       \ {0, -1}

\* The tree at p is whole: nothing of it has been freed
Whole(h, p) == \A c \in Cells(h, p) : Allocated(h, c)

\* A sub-select lies where sqlite3ExprCompare looks
RECURSIVE HasSelect(_, _)
HasSelect(h, p) ==
  IF p = 0 THEN FALSE
  ELSE \/ h.hp[p].pSelect # 0
       \/ HasSelect(h, h.hp[p].pLeft)
       \/ HasSelect(h, h.hp[p].pRight)
       \/ (h.hp[p].pList # 0 /\ \E i \in 1..Len(h.hp[h.hp[p].pList].a) :
                                    HasSelect(h, h.hp[h.hp[p].pList].a[i].pExpr))

\* The copy shares nothing with T, and deleting one of the two trees leaves
\* every object and buffer of the other one in place and as it was
CopyIsSeparate ==
  /\ px.h.err = {}
  /\ (px.C # 0 /\ ~px.delT /\ ~px.delC) =>
        /\ Cells(px.h, px.T) \cap Cells(px.h, px.C) = {}
        /\ Whole(px.h, px.T) /\ Whole(px.h, px.C)
  /\ (px.C # 0 /\ px.delT /\ ~px.delC) => Whole(px.h, px.C)
  /\ (px.C # 0 /\ ~px.delT /\ px.delC) => Whole(px.h, px.T)
  /\ (px.delT /\ (px.C # 0 => px.delC)) =>
        \A c \in (1..Len(px.h.hp)) \ ListCells(px.h, px.E) : px.h.hp[c] = Freed

DeleteKeepsOther ==
  /\ (px'.delT /\ ~px.delT /\ px.C # 0 /\ ~px.delC) =>
        \A c \in Cells(px.h, px.C) : px'.h.hp[c] = px.h.hp[c]
  /\ (px'.delC /\ ~px.delC /\ ~px.delT) =>
        \A c \in Cells(px.h, px.T) : px'.h.hp[c] = px.h.hp[c]

C18_SelectWitness ==
  /\ px.op = "Compare"
  /\ px.res = 0
  /\ px.h.hp[px.T].op = "TK_IN"

\* The nodes that sqlite3ExprResolveIds visits in the tree at p: it does not
\* walk into the values of an IN list nor into a sub-select
RECURSIVE Visited(_, _)
Visited(h, p) ==
  IF p = 0 \/ ~Allocated(h, p) THEN {}
  ELSE {p} \cup Visited(h, h.hp[p].pLeft)
       \cup (IF h.hp[p].op \in {"TK_IN", "TK_SELECT"} THEN {}
             ELSE Visited(h, h.hp[p].pRight)
                  \cup (IF h.hp[p].pList = 0 THEN {}
                        ELSE UNION {Visited(h, h.hp[h.hp[p].pList].a[i].pExpr) :
                                      i \in 1..Len(h.hp[h.hp[p].pList].a)}))

\* the nodes for which the resolver draws a number from the Parse context
Numbered(h, p) ==
  {c \in Visited(h, p) :
     \/ h.hp[c].op = "TK_SELECT"
     \/ h.hp[c].op = "TK_IN" /\ (h.hp[c].pSelect # 0 \/ h.hp[c].pList # 0)}

\* this step is the second sqlite3ExprResolveIds on a tree that the first
\* one resolved without error
SecondRun == px'.op = "Resolve" /\ px.runs = 1 /\ px.rc = 0 /\ px'.runs = 2

\* C19 as stated: the second run returns 0 and changes no node of the tree,
\* IN nodes and scalar sub-selects included
C19_SecondRunChangesNothing ==
  [][SecondRun =>
       /\ px'.rc = 0
       /\ px'.P.nErr = px.P.nErr
       /\ Cells(px'.h, px.T) = Cells(px.h, px.T)
       /\ \A c \in Cells(px.h, px.T) : px'.h.hp[c] = px.h.hp[c]]_vars

\* C19: the second sqlite3ExprResolveIds on a tree that the first one
\* resolved without error returns 0, reports no error and keeps every node's
\* op, children, iDb and dataType; column references, alias rewrites and
\* unmatched double-quoted names stay exactly as they were, but every IN node
\* with a list or a sub-select gets a new iTable and every scalar sub-select
\* a new iColumn, since the run draws a fresh set, cursor or memory cell and
\* emits the code once more
C19_SecondRun ==
  [][SecondRun =>
       /\ px'.rc = 0
       /\ px'.P.nErr = px.P.nErr
       /\ Cells(px'.h, px.T) = Cells(px.h, px.T)
       /\ \A c \in Cells(px.h, px.T) \ Numbered(px.h, px.T) : px'.h.hp[c] = px.h.hp[c]
       /\ \A c \in Numbered(px.h, px.T) :
            IF px.h.hp[c].op = "TK_IN"
            THEN /\ px'.h.hp[c].iTable > px.h.hp[c].iTable
                 /\ px'.h.hp[c] = [px.h.hp[c] EXCEPT !.iTable = px'.h.hp[c].iTable]
            ELSE /\ px'.h.hp[c].iColumn > px.h.hp[c].iColumn
                 /\ px'.h.hp[c] = [px.h.hp[c] EXCEPT !.iColumn = px'.h.hp[c].iColumn]
       /\ px'.P.nTab + px'.P.nSet + px'.P.nMem
            = px.P.nTab + px.P.nSet + px.P.nMem + Cardinality(Numbered(px.h, px.T))
       /\ (Numbered(px.h, px.T) # {}) => px'.P.nOp > px.P.nOp]_vars

\* C19 witness: the second run went over a resolved IN node
C19_Witness ==
  /\ px.op = "Resolve"
  /\ px.runs = 2
  /\ px.rc = 0
  /\ px.h.hp[px.T].op = "TK_IN"

\* the second run went over an alias rewrite
C19_AliasWitness ==
  /\ px.op = "Resolve"
  /\ px.runs = 2
  /\ px.rc = 0
  /\ px.h.hp[px.T].op = "TK_AS"
  /\ px.h.hp[px.h.hp[px.T].pLeft].op = "TK_COLUMN"

\* the second run went over a double-quoted name that is no column
C19_StringWitness ==
  /\ px.op = "Resolve"
  /\ px.runs = 2
  /\ px.rc = 0
  /\ px.h.hp[px.T].op = "TK_STRING"
  /\ px.h.hp[px.T].token.z.q = "\""

\* The source tables that have a column of this name
Owners(zCol) ==
  {i \in 1..Len(SrcTables) :
     \E j \in 1..Len(SrcTables[i].pTab.aCol) :
        Fold(SrcTables[i].pTab.aCol[j].zName) = Fold(zCol)}

\* the result columns of this name
Aliases(zCol) ==
  {j \in 1..Len(px.h.hp[px.E].a) :
     px.h.hp[px.E].a[j].zName # NullZ /\ Fold(px.h.hp[px.E].a[j].zName.s) = Fold(zCol)}

\* this step is the first sqlite3ExprResolveIds on a tree that is one bare
\* identifier
BareNameRun ==
  /\ px'.op = "Resolve"
  /\ px.runs = 0
  /\ px.h.hp[px.T].op = "TK_ID"

Ambiguous == Cardinality(Owners(px.h.hp[px.T].token.z.s)) >= 2
NoMatch == Owners(px.h.hp[px.T].token.z.s) = {}

\* C20 as stated: an ambiguous bare name and a name that matches no column
\* give 1 error with their message, and the node keeps its op
C20_ErrorKeepsOp ==
  [][/\ (BareNameRun /\ Ambiguous) =>
           /\ px'.rc = 1
           /\ px'.P.nErr = 1
           /\ px'.P.zErrMsg = [fmt |-> "ambiguous column name: %s",
                               name |-> Qualified("", "", px.h.hp[px.T].token.z.s)]
           /\ px'.h.hp[px.T].op = px.h.hp[px.T].op
     /\ (BareNameRun /\ NoMatch) =>
           /\ px'.rc = 1
           /\ px'.P.nErr = 1
           /\ px'.P.zErrMsg = [fmt |-> "no such column: %s",
                               name |-> Qualified("", "", px.h.hp[px.T].token.z.s)]
           /\ px'.h.hp[px.T].op = px.h.hp[px.T].op]_vars

\* C20: when a bare column name matches a column in two source tables,
\* sqlite3ExprResolveIds returns 1 and leaves one error with the message
\* "ambiguous column name: <name>"; a bare name that matches no column and
\* no result column (and is no rowid name of a single table) gives
\* "no such column: <name>" in the same way.  In both cases the node has
\* been rewritten all the same: its op is TK_COLUMN and it has no children.
\* A name that matches a result column only is rewritten to TK_AS without an
\* error
C20_NameErrors ==
  [][/\ (BareNameRun /\ Ambiguous) =>
           /\ px'.rc = 1
           /\ px'.P.nErr = 1
           /\ px'.P.zErrMsg = [fmt |-> "ambiguous column name: %s",
                               name |-> Qualified("", "", px.h.hp[px.T].token.z.s)]
           /\ px'.h.hp[px.T] = [px.h.hp[px.T] EXCEPT !.op = "TK_COLUMN",
                                                       !.iTable = px'.h.hp[px.T].iTable,
                                                       !.iDb = px'.h.hp[px.T].iDb,
                                                       !.iColumn = px'.h.hp[px.T].iColumn,
                                                       !.dataType = px'.h.hp[px.T].dataType]
     /\ (BareNameRun /\ NoMatch /\ Aliases(px.h.hp[px.T].token.z.s) = {}
           /\ ~(Len(SrcTables) = 1 /\ sqlite3IsRowid(px.h.hp[px.T].token.z.s))) =>
           /\ px'.rc = 1
           /\ px'.P.nErr = 1
           /\ px'.P.zErrMsg = [fmt |-> "no such column: %s",
                               name |-> Qualified("", "", px.h.hp[px.T].token.z.s)]
           /\ px'.h.hp[px.T] = [px.h.hp[px.T] EXCEPT !.op = "TK_COLUMN",
                                                       !.iTable = px'.h.hp[px.T].iTable,
                                                       !.iDb = px'.h.hp[px.T].iDb]
     /\ (BareNameRun /\ NoMatch /\ Aliases(px.h.hp[px.T].token.z.s) # {}) =>
           /\ px'.rc = 0
           /\ px'.P.nErr = 0
           /\ px'.h.hp[px.T].op = "TK_AS"]_vars

\* C20 witness: the bare name x, a column of t1 and of t2, was reported as
\* ambiguous
C20_Witness ==
  /\ px.op = "Resolve"
  /\ px.rc = 1
  /\ px.P.zErrMsg.fmt = "ambiguous column name: %s"
  /\ px.h.hp[px.T].token.z.s = "x"
  /\ Cardinality(Owners("x")) = 2

\* the bare name zz was reported as no column
C20_NoColumnWitness ==
  /\ px.op = "Resolve"
  /\ px.rc = 1
  /\ px.P.zErrMsg = [fmt |-> "no such column: %s", name |-> Qualified("", "", "zz")]
  /\ px.h.hp[px.T].token.z.s = "zz"
  /\ px.h.hp[px.T].token.z.q = ""

\* The rule table of affinities, by the kind of the node
Arithmetic == {"TK_PLUS", "TK_MINUS", "TK_STAR", "TK_SLASH", "TK_REM", "TK_UMINUS", "TK_UPLUS"}
Bitwise == {"TK_BITAND", "TK_BITOR", "TK_BITNOT", "TK_LSHIFT", "TK_RSHIFT"}
NullTest == {"TK_ISNULL", "TK_NOTNULL"}
Logical == {"TK_AND", "TK_OR", "TK_NOT", "TK_IN"}
Comparison == {"TK_LT", "TK_LE", "TK_GT", "TK_GE", "TK_NE", "TK_EQ"}

RECURSIVE Affinity(_, _)
Affinity(h, p) ==
  LET e == h.hp[p]
      then == {h.hp[e.pList].a[i].pExpr : i \in {j \in 1..Len(h.hp[e.pList].a) : j % 2 = 0}}
  IN CASE e.op \in Arithmetic \cup Bitwise \cup NullTest \cup Logical -> SQLITE_SO_NUM
       [] e.op \in {"TK_BETWEEN", "TK_LIKE", "TK_GLOB", "TK_INTEGER", "TK_FLOAT"} -> SQLITE_SO_NUM
       [] e.op \in {"TK_STRING", "TK_NULL", "TK_CONCAT", "TK_VARIABLE"} -> SQLITE_SO_TEXT
       [] e.op \in Comparison ->
            IF Affinity(h, e.pLeft) = SQLITE_SO_NUM THEN SQLITE_SO_NUM ELSE Affinity(h, e.pRight)
       [] e.op = "TK_CASE" ->
            IF \/ e.pRight # 0 /\ Affinity(h, e.pRight) = SQLITE_SO_NUM
               \/ \E t \in then : Affinity(h, t) = SQLITE_SO_NUM
            THEN SQLITE_SO_NUM ELSE SQLITE_SO_TEXT
       [] e.op = "TK_AS" -> Affinity(h, e.pLeft)
       [] e.op = "TK_SELECT" -> Affinity(h, h.hp[h.hp[e.pSelect].pEList].a[1].pExpr)
       [] e.op \in {"TK_COLUMN", "TK_FUNCTION", "TK_AGG_FUNCTION"} -> e.dataType

\* C22: sqlite3ExprType returns the affinity of the rule table for every
\* operator and every combination of numeric and text operands: a comparison
\* is numeric if its left operand is numeric and else follows its right
\* operand, CASE is numeric iff its ELSE or one of its THEN values is,
\* arithmetic, bitwise, null tests, BETWEEN, LIKE and GLOB are numeric,
\* string, null, concat and variable are text, AS follows its inner
\* expression; a repeated call returns the same affinity and the call
\* changes nothing in the tree
C22_TypeRules ==
  [][px'.op = "Type" =>
       /\ px'.type = Affinity(px.h, px.T)
       /\ px'.type \in {SQLITE_SO_NUM, SQLITE_SO_TEXT}
       /\ px.ntype >= 1 => px'.type = px.type
       /\ px'.h = px.h]_vars

\* C22 witness: a comparison of a text operand with a numeric one was typed
\* twice, as numeric
C22_Witness ==
  /\ px.op = "Type"
  /\ px.ntype = 2
  /\ px.h.hp[px.T].op = "TK_EQ"
  /\ px.h.hp[px.h.hp[px.T].pLeft].op = "TK_STRING"
  /\ px.h.hp[px.h.hp[px.T].pRight].op = "TK_INTEGER"
  /\ px.type = SQLITE_SO_NUM

\* a CASE without ELSE whose THEN values are text was typed as text
C22_CaseWitness ==
  /\ px.op = "Type"
  /\ px.h.hp[px.T].op = "TK_CASE"
  /\ px.h.hp[px.T].pRight = 0
  /\ px.type = SQLITE_SO_TEXT

\* The IN (value-list) nodes of the tree at p, and those the resolver visits
InNodes(h, p) ==
  {c \in Cells(h, p) : h.hp[c].t = "expr" /\ h.hp[c].op = "TK_IN" /\ h.hp[c].pList # 0}

HasNonConstant(h, n) ==
  \E i \in 1..Len(h.hp[h.hp[n].pList].a) :
     ~sqlite3ExprIsConstant(h, h.hp[h.hp[n].pList].a[i].pExpr)

\* C23: after resolution an IN (value-list) node with a non-constant in its
\* list has produced an error and no set identifier, and every IN
\* (value-list) node resolved without error has a list of constants and a
\* fresh set identifier in iTable that no other IN node has
C23_InSets ==
  [][px'.op = "Resolve" =>
       /\ \A n \in InNodes(px.h, px.T) :
            HasNonConstant(px.h, n) =>
               /\ px'.rc = 1
               /\ px'.P.nErr > px.P.nErr
               /\ px'.P.nSet = px.P.nSet
               /\ px'.h.hp[n].iTable = px.h.hp[n].iTable
       /\ px'.rc = 0 =>
            \A n \in InNodes(px.h, px.T) :
               /\ ~HasNonConstant(px'.h, n)
               /\ px'.h.hp[n].iTable \in px.P.nSet .. (px'.P.nSet - 1)
               /\ \A m \in InNodes(px.h, px.T) \ {n} :
                     px'.h.hp[m].iTable # px'.h.hp[n].iTable]_vars

\* the same for the IN nodes that the resolver visits: this much holds
C23_VisitedInSets ==
  [][px'.op = "Resolve" =>
       /\ \A n \in InNodes(px.h, px.T) \cap Visited(px.h, px.T) :
            HasNonConstant(px.h, n) =>
               /\ px'.rc = 1
               /\ px'.P.nErr > px.P.nErr
               /\ px'.P.nSet = px.P.nSet
               /\ px'.h.hp[n].iTable = px.h.hp[n].iTable
       /\ px'.rc = 0 =>
            \A n \in InNodes(px.h, px.T) \cap Visited(px.h, px.T) :
               /\ ~HasNonConstant(px'.h, n)
               /\ px'.h.hp[n].iTable \in px.P.nSet .. (px'.P.nSet - 1)
               /\ \A m \in (InNodes(px.h, px.T) \cap Visited(px.h, px.T)) \ {n} :
                     px'.h.hp[m].iTable # px'.h.hp[n].iTable]_vars

\* two IN lists of one expression were given the sets 0 and 1
C23_TwoSets ==
  /\ px.op = "Resolve"
  /\ px.rc = 0
  /\ px.h.hp[px.T].op = "TK_AND"
  /\ px.h.hp[px.h.hp[px.T].pLeft].op = "TK_IN"
  /\ px.h.hp[px.h.hp[px.T].pRight].op = "TK_IN"
  /\ px.h.hp[px.h.hp[px.T].pLeft].iTable # px.h.hp[px.h.hp[px.T].pRight].iTable

\* the expression nodes of the tree at p
RECURSIVE ExprNodes(_, _)
ExprNodes(h, p) ==
  IF p = 0 THEN {}
  ELSE {p} \cup ExprNodes(h, h.hp[p].pLeft) \cup ExprNodes(h, h.hp[p].pRight)
       \cup (IF h.hp[p].pList = 0 THEN {}
             ELSE UNION {ExprNodes(h, h.hp[h.hp[p].pList].a[i].pExpr) :
                           i \in 1..Len(h.hp[h.hp[p].pList].a)})

\* the nodes inside the argument list of an aggregate-function call
UnderAggregate(h, p) ==
  UNION {UNION {ExprNodes(h, h.hp[h.hp[f].pList].a[i].pExpr) :
                  i \in 1..Len(h.hp[h.hp[f].pList].a)} :
           f \in {c \in ExprNodes(h, p) : h.hp[c].op = "TK_AGG_FUNCTION" /\ h.hp[c].pList # 0}}

\* iAgg of the column c names a non-aggregate slot for c's table and column
HasColumnSlot(h, P, c) ==
  /\ h.hp[c].iAgg < Len(P.aAgg)
  /\ P.aAgg[h.hp[c].iAgg + 1].isAgg = 0
  /\ h.hp[P.aAgg[h.hp[c].iAgg + 1].pExpr].iTable = h.hp[c].iTable
  /\ h.hp[P.aAgg[h.hp[c].iAgg + 1].pExpr].iColumn = h.hp[c].iColumn

\* iAgg of the aggregate call c names an aggregate slot for the same call
HasFunctionSlot(h, P, c) ==
  /\ h.hp[c].iAgg < Len(P.aAgg)
  /\ P.aAgg[h.hp[c].iAgg + 1].isAgg = 1
  /\ P.aAgg[h.hp[c].iAgg + 1].pFunc # NoFunc
  /\ sqlite3ExprCompare(h, P.aAgg[h.hp[c].iAgg + 1].pExpr, c)

AnalyzedOk == px.nagg > 0 /\ px.agg = 0 /\ px.h.err = {}

\* C24 as stated: after sqlite3ExprAnalyzeAggregates, every column reference
\* inside the argument list of an aggregate-function call has a
\* non-aggregate slot of aAgg for its table and column
C24_ArgumentColumnsHaveSlots ==
  AnalyzedOk =>
    \A c \in UnderAggregate(px.h, px.T) :
      px.h.hp[c].op = "TK_COLUMN" => HasColumnSlot(px.h, px.P, c)

\* C24, amended: after sqlite3ExprAnalyzeAggregates, every column reference
\* outside the aggregate-function calls has a non-aggregate slot of aAgg for
\* its table and column and every aggregate-function call has an aggregate
\* slot; the argument lists of the calls are not walked: the columns in them
\* keep iAgg 0 and no slot is made for them
C24_SlotsOutsideAggregates ==
  AnalyzedOk =>
    /\ \A c \in ExprNodes(px.h, px.T) \ UnderAggregate(px.h, px.T) :
         /\ px.h.hp[c].op = "TK_COLUMN" => HasColumnSlot(px.h, px.P, c)
         /\ px.h.hp[c].op = "TK_AGG_FUNCTION" => HasFunctionSlot(px.h, px.P, c)
    /\ \A c \in UnderAggregate(px.h, px.T) : px.h.hp[c].iAgg = 0
    /\ \A i \in 1..Len(px.P.aAgg) :
         px.P.aAgg[i].pExpr \in ExprNodes(px.h, px.T) \ UnderAggregate(px.h, px.T)
    /\ \A i, j \in 1..Len(px.P.aAgg) :
         (/\ i < j
          /\ px.P.aAgg[i].isAgg = 0
          /\ px.P.aAgg[j].isAgg = 0)
         => \/ px.h.hp[px.P.aAgg[i].pExpr].iTable # px.h.hp[px.P.aAgg[j].pExpr].iTable
            \/ px.h.hp[px.P.aAgg[i].pExpr].iColumn # px.h.hp[px.P.aAgg[j].pExpr].iColumn

\* an analysed tree with a column beside an aggregate call and a column in
\* the call's argument list
C24_Witness ==
  /\ AnalyzedOk
  /\ \E c \in UnderAggregate(px.h, px.T) : px.h.hp[c].op = "TK_COLUMN"
  /\ \E c \in ExprNodes(px.h, px.T) \ UnderAggregate(px.h, px.T) :
       px.h.hp[c].op = "TK_COLUMN" /\ px.h.hp[c].iAgg > 0

\* two columns of one table beside an aggregate call
C24_TwoColumnsWitness ==
  /\ AnalyzedOk
  /\ \E c, d \in ExprNodes(px.h, px.T) \ UnderAggregate(px.h, px.T) :
       /\ px.h.hp[c].op = "TK_COLUMN"
       /\ px.h.hp[d].op = "TK_COLUMN"
       /\ px.h.hp[c].iTable = px.h.hp[d].iTable
       /\ px.h.hp[c].iColumn # px.h.hp[d].iColumn

\* the value of the expression at p on the row env, by the rules of SQL
RECURSIVE Eval(_, _, _)
Eval(h, p, env) ==
  LET e == h.hp[p]
      l == Eval(h, e.pLeft, env)
      r == Eval(h, e.pRight, env)
      cmp(op, x, y) == IF x.flags = MEM_Null \/ y.flags = MEM_Null THEN VNull
                       ELSE VInt(IF Compares(op, x.i, y.i) THEN 1 ELSE 0)
  IN CASE e.op = "TK_COLUMN" -> IF e.iTable = 0 THEN env.a ELSE env.b
       [] e.op = "TK_INTEGER" -> VInt(atoi(e.token.z.s))
       [] e.op = "TK_NULL" -> VNull
       [] e.op = "TK_AS" -> l
       [] e.op \in CompareOps -> cmp(ValueOp(e.op), l, r)
       [] e.op = "TK_AND" -> OfTruth(AndOf(Truth(l), Truth(r)))
       [] e.op = "TK_OR" -> OfTruth(OrOf(Truth(l), Truth(r)))
       [] e.op = "TK_NOT" -> IF l.flags = MEM_Null THEN VNull
                             ELSE VInt(IF l.i = 0 THEN 1 ELSE 0)
       [] e.op = "TK_ISNULL" -> VInt(IF l.flags = MEM_Null THEN 1 ELSE 0)
       [] e.op = "TK_NOTNULL" -> VInt(IF l.flags = MEM_Null THEN 0 ELSE 1)
       [] e.op = "TK_BETWEEN" ->
            OfTruth(AndOf(Truth(cmp("OP_Ge", l, Eval(h, h.hp[e.pList].a[1].pExpr, env))),
                          Truth(cmp("OP_Le", l, Eval(h, h.hp[e.pList].a[2].pExpr, env)))))

\* the program of the Vdbe and the addresses of the instructions that the
\* nodes of S own
Program == px.P.pVdbe.aOp
CodeOfNodes(S) == {j - 1 : j \in {k \in DOMAIN Program : Program[k].by \in S}}
Pushes == {"OP_Column", "OP_Recno", "OP_Integer", "OP_String", "OP_Variable", "OP_AggGet"}

\* a negative literal: sqlite3ExprCode codes it in the TK_UMINUS node
NegativeLiteral(h, p) ==
  h.hp[p].op = "TK_UMINUS" /\ h.hp[h.hp[p].pLeft].op \in {"TK_FLOAT", "TK_INTEGER"}

\* the nodes of the tree at p that the emitters code: the values of an IN
\* list are in the set already
RECURSIVE CodedNodes(_, _)
CodedNodes(h, p) ==
  IF p = 0 THEN {}
  ELSE IF NegativeLiteral(h, p) THEN {p}
  ELSE {p} \cup CodedNodes(h, h.hp[p].pLeft) \cup CodedNodes(h, h.hp[p].pRight)
       \cup (IF h.hp[p].pList = 0 \/ h.hp[p].op = "TK_IN" THEN {}
             ELSE UNION {CodedNodes(h, h.hp[h.hp[p].pList].a[i].pExpr) :
                           i \in 1..Len(h.hp[h.hp[p].pList].a)})

\* every column and literal of the tree at p is pushed by exactly one
\* instruction: no part of the tree is coded twice or left out
CodedOnce(p) ==
  \A n \in CodedNodes(px.h, p) :
    (\/ px.h.hp[n].op \in {"TK_COLUMN", "TK_INTEGER", "TK_NULL", "TK_STRING"}
     \/ NegativeLiteral(px.h, n))
    => Cardinality({j \in DOMAIN Program :
                      Program[j].by = n /\ Program[j].opcode \in Pushes}) = 1

\* the addresses of S are the n addresses from first on
Block(S, first, n) == n > 0 /\ S = first..(first + n - 1)

\* sqlite3ExprIfTrue or sqlite3ExprIfFalse has coded a tree A AND B or A OR B
ShortCircuit == px.gen \in {"IfTrue", "IfFalse"} /\ px.h.hp[px.T].op \in {"TK_AND", "TK_OR"}
CodeOfA == CodeOfNodes(ExprNodes(px.h, px.h.hp[px.T].pLeft))
CodeOfB == CodeOfNodes(ExprNodes(px.h, px.h.hp[px.T].pRight))

\* the tree at p is made of the operators that Eval knows
Evaluable(p) ==
  \A n \in ExprNodes(px.h, p) :
    px.h.hp[n].op \in CompareOps \cup {"TK_COLUMN", "TK_INTEGER", "TK_NULL", "TK_AS", "TK_AND",
                                       "TK_OR", "TK_NOT", "TK_ISNULL", "TK_NOTNULL",
                                       "TK_BETWEEN"}

\* on the current row A alone determines A AND B, or A OR B
Determined ==
  /\ Evaluable(px.h.hp[px.T].pLeft)
  /\ \/ px.h.hp[px.T].op = "TK_AND" /\ Truth(Eval(px.h, px.h.hp[px.T].pLeft, px.vm.env)) = 0
     \/ px.h.hp[px.T].op = "TK_OR" /\ Truth(Eval(px.h, px.h.hp[px.T].pLeft, px.vm.env)) = 1

\* the jump that the caller asked for is taken
JumpExpected ==
  IF px.gen = "IfTrue" THEN px.h.hp[px.T].op = "TK_OR" ELSE px.h.hp[px.T].op = "TK_AND"

\* C21: in the code that sqlite3ExprIfTrue and sqlite3ExprIfFalse emit for
\* A AND B and A OR B, the code of A and the code of B are emitted once each,
\* A's before B's, all jumps go forward inside the program, and an execution
\* on a row where A alone determines the result (A false for AND, A true for
\* OR) runs no instruction of B and ends at the jump target or at the
\* fall-through point, whichever the result asks for
C21_ShortCircuit ==
  ShortCircuit =>
    /\ Block(CodeOfA, 0, Cardinality(CodeOfA))
    /\ Block(CodeOfB, Cardinality(CodeOfA), Cardinality(CodeOfB))
    /\ Len(Program) = Cardinality(CodeOfA) + Cardinality(CodeOfB) + 2
    /\ CodedOnce(px.T)
    /\ \A j \in DOMAIN Program :
         Program[j].opcode \notin {"OP_Halt", "OP_Integer", "OP_Column", "OP_Recno"}
         /\ Program[j].p2 # 0
         => Program[j].p2 > j - 1 /\ Program[j].p2 < Len(Program)
    /\ (px.vm.st # "none" /\ Determined) =>
         /\ px.vm.ran \cap CodeOfB = {}
         /\ px.vm.pc \notin CodeOfB
         /\ px.vm.pc < Len(Program)
         /\ px.vm.st = "halt" =>
              /\ px.vm.pc \in {Len(Program) - 2, Len(Program) - 1}
              /\ px.vm.p1 = IF JumpExpected THEN 1 ELSE 0

\* a row with A false has run through the code of A AND B
C21_Witness ==
  /\ ShortCircuit
  /\ px.h.hp[px.T].op = "TK_AND"
  /\ Determined
  /\ px.vm.st = "halt"
  /\ px.vm.ran \cap CodeOfA # {}

\* a row with A true has run through the code of A OR B, A being an AND itself
C21_OrWitness ==
  /\ ShortCircuit
  /\ px.h.hp[px.T].op = "TK_OR"
  /\ px.h.hp[px.h.hp[px.T].pLeft].op = "TK_AND"
  /\ Determined
  /\ px.vm.st = "halt"

\* what was on the stack when the code started
Under == [n \in 1..px.vm.base |-> Marker]

\* the generated code computes the expression: the branch is taken exactly
\* when the condition asks for it, and the value form leaves the value
CodeIsCorrect ==
  (px.vm.st = "halt" /\ Evaluable(px.T)) =>
    LET v == Eval(px.h, px.T, px.vm.env)
    IN CASE px.gen = "Code" -> px.vm.p1 = 2 /\ px.vm.stack = Append(Under, v)
         [] px.gen = "IfTrue" ->
              /\ px.vm.stack = Under
              /\ px.vm.p1 = IF Truth(v) = 1 \/ (Truth(v) = 2 /\ px.jin = 1) THEN 1 ELSE 0
         [] px.gen = "IfFalse" ->
              /\ px.vm.stack = Under
              /\ px.vm.p1 = IF Truth(v) = 0 \/ (Truth(v) = 2 /\ px.jin = 1) THEN 1 ELSE 0

\* sqlite3ExprCode has coded a BETWEEN
ValueBetween == px.gen = "Code" /\ px.h.hp[px.T].op = "TK_BETWEEN"
Operand == CodeOfNodes(ExprNodes(px.h, px.h.hp[px.T].pLeft))
Lower == CodeOfNodes(ExprNodes(px.h, px.h.hp[px.h.hp[px.T].pList].a[1].pExpr))
Upper == CodeOfNodes(ExprNodes(px.h, px.h.hp[px.h.hp[px.T].pList].a[2].pExpr))
Instr(j, opcode, p1, p2) ==
  /\ j < Len(Program)
  /\ Program[j + 1].by = px.T
  /\ Program[j + 1].opcode = opcode
  /\ Program[j + 1].p1 = p1
  /\ Program[j + 1].p2 = p2

\* C25: the value form of `operand BETWEEN lower AND upper` is the code of
\* the operand, Dup, the code of lower, Ge, Pull 1, the code of upper, Le,
\* And, with the operand and each bound coded once; for a column between 2
\* and 4 it is Column, Dup, Integer 2, Ge, Pull 1, Integer 4, Le, And
C25_BetweenCode ==
  ValueBetween =>
    LET nO == Cardinality(Operand)
        nL == Cardinality(Lower)
        nU == Cardinality(Upper)
    IN /\ Block(Operand, 0, nO)
       /\ Instr(nO, "OP_Dup", 0, 0)
       /\ Block(Lower, nO + 1, nL)
       /\ Instr(nO + 1 + nL, "OP_Ge", 0, 0)
       /\ Instr(nO + nL + 2, "OP_Pull", 1, 0)
       /\ Block(Upper, nO + nL + 3, nU)
       /\ Instr(nO + nL + nU + 3, "OP_Le", 0, 0)
       /\ Instr(nO + nL + nU + 4, "OP_And", 0, 0)
       /\ Len(Program) = nO + nL + nU + 6
       /\ CodedOnce(px.T)
       /\ (/\ px.h.hp[px.h.hp[px.T].pLeft].op = "TK_COLUMN"
           /\ px.h.hp[px.h.hp[px.T].pLeft].iColumn >= 0
           /\ px.h.hp[px.h.hp[px.h.hp[px.T].pList].a[1].pExpr].op = "TK_INTEGER"
           /\ px.h.hp[px.h.hp[px.h.hp[px.T].pList].a[1].pExpr].token.z.s = "2"
           /\ px.h.hp[px.h.hp[px.h.hp[px.T].pList].a[2].pExpr].op = "TK_INTEGER"
           /\ px.h.hp[px.h.hp[px.h.hp[px.T].pList].a[2].pExpr].token.z.s = "4")
          => [j \in 1..8 |-> <<Program[j].opcode, Program[j].p1>>]
               = << <<"OP_Column", px.h.hp[px.h.hp[px.T].pLeft].iTable>>, <<"OP_Dup", 0>>,
                    <<"OP_Integer", 2>>, <<"OP_Ge", 0>>, <<"OP_Pull", 1>>,
                    <<"OP_Integer", 4>>, <<"OP_Le", 0>>, <<"OP_And", 0>> >>

\* the value form of `a BETWEEN 2 AND 4` has been executed on a row
C25_Witness ==
  /\ ValueBetween
  /\ px.vm.st = "halt"
  /\ Len(Program) = 9
  /\ Program[3].opcode = "OP_Integer" /\ Program[3].p1 = 2
  /\ Program[6].opcode = "OP_Integer" /\ Program[6].p1 = 4

\* the value form of a BETWEEN whose operand is a BETWEEN itself
C25_NestedWitness ==
  /\ ValueBetween
  /\ px.h.hp[px.h.hp[px.T].pLeft].op = "TK_BETWEEN"
  /\ px.vm.st = "halt"

\* this Write called vdbeSorterFlushPMA: a subtask got a PMA or a thread, or
\* the flush failed
WriteFlushed == task' # task \/ disk' # disk \/ obs'.rc # OK \/ main'.x # main.x

\* nReq of the record that this Write stores
WriteReq == input[obs.pos + 1].n + SZ_SORTER_RECORD

\* C26 as stated: in the bulk arena a Write flushes exactly when
\* iMemory + nReq > mxPmaSize, whatever iMemory is; with one allocation per
\* record exactly when list.szPMA > mxPmaSize, or list.szPMA > mnPmaSize and
\* the heap is nearly full
C26_FlushExactly ==
  [][WriteStep =>
       (WriteFlushed <=>
          IF sorter.list.aMemory # 0
          THEN sorter.iMemory + WriteReq > sorter.mxPmaSize
          ELSE \/ sorter.list.szPMA > sorter.mxPmaSize
               \/ (sorter.list.szPMA > sorter.mnPmaSize /\ obs'.hnf))]_vars

\* C26, amended: a Write flushes the list before it stores the record exactly
\* when mxPmaSize is not 0 and, in the bulk arena, the arena is in use
\* (iMemory > 0) and iMemory + nReq > mxPmaSize; with one allocation per
\* record, list.szPMA > mxPmaSize, or list.szPMA > mnPmaSize and the heap is
\* nearly full.  The record is stored in either case
C26_FlushCondition ==
  [][WriteStep =>
       /\ WriteFlushed <=>
            /\ sorter.mxPmaSize # 0
            /\ IF sorter.list.aMemory # 0
               THEN sorter.iMemory # 0 /\ sorter.iMemory + WriteReq > sorter.mxPmaSize
               ELSE \/ sorter.list.szPMA > sorter.mxPmaSize
                    \/ (sorter.list.szPMA > sorter.mnPmaSize /\ obs'.hnf)
       /\ main'.x = {} => /\ sorter'.list.pList # <<>>
                          /\ Head(sorter'.list.pList) = input[obs.pos + 1]]_vars

\* a Write below mxPmaSize has flushed the list because the heap was nearly full
C26_Witness ==
  /\ obs.op = "Write"
  /\ obs.rc = OK
  /\ obs.hnf
  /\ sorter.list.aMemory = 0
  /\ sorter.bUsePMA = 1
  /\ Len(sorter.list.pList) = 1
  /\ sorter.mnPmaSize < sorter.mxPmaSize

\* a Write has flushed the bulk arena and the new record is alone in it
C26_ArenaWitness ==
  /\ obs.op = "Write"
  /\ obs.rc = OK
  /\ sorter.list.aMemory # 0
  /\ sorter.bUsePMA = 1
  /\ Len(sorter.list.pList) = 1
  /\ sorter.iMemory = ROUND8(sorter.list.pList[1].n + SZ_SORTER_RECORD)

\* a record larger than mxPmaSize has gone into the empty arena without a flush
C26_BigFirstWitness ==
  /\ obs.op = "Write"
  /\ obs.pos = 1
  /\ sorter.list.aMemory # 0
  /\ sorter.bUsePMA = 0
  /\ sorter.iMemory > sorter.mxPmaSize

\* the bytes that the records of a list take in a PMA
RECURSIVE ListBytes(_)
ListBytes(l) ==
  IF l = <<>> THEN 0
  ELSE Head(l).n + sqlite3VarintLen(Head(l).n) + ListBytes(Tail(l))

\* the records of a PMA lie end to end from off to end
RECURSIVE RecordsTile(_, _, _, _)
RecordsTile(c, off, end, fuel) ==
  IF off = end THEN TRUE
  ELSE /\ fuel > 0
       /\ off < end
       /\ off \in DOMAIN c
       /\ c[off].t = "v"
       /\ (off + c[off].len) \in DOMAIN c
       /\ c[off + c[off].len].t = "b"
       /\ c[off + c[off].len].len = c[off].v
       /\ RecordsTile(c, off + c[off].len + c[off].v, end, fuel - 1)

\* n PMAs lie end to end from off to iEof
RECURSIVE PMAsTile(_, _, _, _)
PMAsTile(c, off, n, iEof) ==
  IF n = 0 THEN off = iEof
  ELSE /\ off \in DOMAIN c
       /\ c[off].t = "v"
       /\ c[off].v > 0
       /\ RecordsTile(c, off + c[off].len, off + c[off].len + c[off].v, Len(input))
       /\ PMAsTile(c, off + c[off].len + c[off].v, n - 1, iEof)

\* no write to a temp file has been made to fail
NoFault == main.nf = 0 /\ main.flt = "none"

\* the file of subtask i holds its nPMA PMAs end to end; a subtask without
\* a file has no PMA
FileTiled(i) ==
  IF task[i].file.pFd = 0 THEN task[i].nPMA = 0 /\ task[i].file.iEof = 0
  ELSE /\ task[i].file.pFd \in DOMAIN disk
       /\ PMAsTile(disk[task[i].file.pFd], 0, task[i].nPMA, task[i].file.iEof)

\* the list that the flush of this step writes to the file of subtask i
FlushedList(i) ==
  IF task[i].pThread = 1 /\ task[i].bDone = 0 /\ task'[i].bDone = 1
  THEN task[i].list.pList ELSE sorter.list.pList

\* this step appends one PMA with the records of the flushed list to the
\* file of subtask i
AppendsOnePMA(i) ==
  /\ task'[i].nPMA = task[i].nPMA + 1
  /\ ListBytes(FlushedList(i)) > 0
  /\ task'[i].file.iEof = task[i].file.iEof + ListBytes(FlushedList(i))
                            + sqlite3VarintLen(ListBytes(FlushedList(i)))

TiledBeforeReset ==
  /\ [](NoFault /\ csr.pSorter = 1 /\ obs.epoch = 0 /\ obs.op # "Reset"
          => \A i \in Tasks : FileTiled(i))
  /\ [][(NoFault' /\ csr.pSorter = 1 /\ obs.epoch = 0) =>
          \A i \in Tasks : task'[i].nPMA > task[i].nPMA => AppendsOnePMA(i)]_vars

\* ---- C28: the subtask a write-time flush in multi-threaded mode picks ----

\* The subtask examined k-th by a write-time flush
Examined(k) == (sorter.iPrev + k + 1) % (sorter.nTask - 1)

\* The step joins the thread of subtask i
Joined(i) ==
  /\ task[i].pThread = 1
  /\ task'[i].pThread = 0 \/ (task[i].bDone = 1 /\ task'[i].bDone = 0)

\* The step leaves the outstanding thread of subtask i alone
LeftRunning(i) == task[i].pThread = 1 /\ task'[i] = task[i]

\* The step hands the in-memory list to a new flush thread of subtask i
HandedTo(i) ==
  /\ task[i].pThread = 0 \/ task[i].bDone = 1
  /\ task'[i].pThread = 1 /\ task'[i].bDone = 0
  /\ task'[i].thr.kind = "flush"
  /\ task'[i].list.pList = sorter.list.pList
  /\ sorter'.iPrev = i

\* The step writes the in-memory list as one more PMA of the last subtask, on
\* the calling thread
OwnThread ==
  /\ task'[sorter.nTask - 1].pThread = 0
  /\ task'[sorter.nTask - 1].nPMA = task[sorter.nTask - 1].nPMA + 1
  /\ sorter'.iPrev = sorter.iPrev

MultiWriteFlush ==
  /\ WriteStep /\ WriteFlushed
  /\ sorter.bUseThreads = 1
  /\ obs'.rc = OK /\ main'.x = {}

\* C28: a Write in multi-threaded mode never blocks; when it flushes it joins
\* only workers marked done, leaves the subtasks (iPrev+1 .. ) mod (N-1) it
\* finds busy alone, hands the list to the first one without an outstanding
\* thread, and writes the PMA itself into subtask N-1 when all N-1 are busy;
\* subtask N-1 never runs a flush thread
C28_FlushNeverWaits ==
  /\ [](\A i \in Tasks :
          (csr.pSorter = 1 /\ i = sorter.nTask - 1 /\ task[i].pThread = 1)
             => task[i].thr.kind # "flush")
  /\ []((Idle /\ obs.phase = "write" /\ obs.pos < Len(input) /\ sorter.bUseThreads = 1)
          => \A hnf \in HnfChoices, seen \in SeenChoices :
               ~sqlite3VdbeSorterWrite(H, input[obs.pos + 1], hnf, seen).h.blk)
  /\ [][MultiWriteFlush =>
         /\ \A i \in Tasks : Joined(i) => task[i].bDone = 1
         /\ \/ \E k \in 0..(sorter.nTask - 2) :
                 /\ HandedTo(Examined(k))
                 /\ \A b \in 0..(k - 1) : LeftRunning(Examined(b))
                 /\ \A i \in Tasks \ {Examined(k)} : task'[i] = task[i]
            \/ /\ \A i \in 0..(sorter.nTask - 2) : LeftRunning(i)
               /\ OwnThread]_vars

\* The calling thread has flushed into subtask N-1 while every worker ran
C28_Witness ==
  /\ obs.op = "Write" /\ obs.phase = "write" /\ obs.rc = OK /\ main.x = {}
  /\ sorter.bUseThreads = 1
  /\ task[sorter.nTask - 1].nPMA > 0
  /\ \A i \in 0..(sorter.nTask - 2) : task[i].pThread = 1 /\ task[i].bDone = 0

\* With two workers, the flush skipped the first subtask it examined, because
\* its thread still runs, and handed the list to the other one
C28_SkipWitness ==
  /\ obs.op = "Write" /\ obs.phase = "write" /\ obs.rc = OK /\ main.x = {}
  /\ sorter.nTask = 3 /\ sorter.iPrev = 0
  /\ task[0].pThread = 1 /\ task[0].bDone = 0 /\ task[0].nPMA = 1
  /\ task[0].list.pList # <<>>
  /\ task[1].pThread = 1 /\ task[1].bDone = 0 /\ task[1].nPMA = 0
  /\ task[2].nPMA = 0

\* ---- C29: the order of vdbeSorterJoinAll and who joins which thread ----

\* The subtasks on whose thread the next step of the thread of subtask w calls
\* sqlite3ThreadJoin()
WorkerJoins(w) == IF Unfinished(w) THEN WorkerStep(w).jn ELSE {}

\* ... the call the calling thread waits in, or any call it can make next
MainJoins ==
  IF main.x # {} \/ csr.pSorter = 0 THEN {}
  ELSE IF main.pc # "idle" THEN RunMain(H).jn
  ELSE ResetOrClose(H, TRUE).jn
       \cup (IF obs.phase = "read" THEN sqlite3VdbeSorterNext(H).jn ELSE {})
       \cup (IF obs.phase = "write"
             THEN UNION {sqlite3VdbeSorterRewind([H EXCEPT !.op = "Rewind"], seen).jn
                           : seen \in SeenChoices}
             ELSE {})

\* While vdbeSorterJoinAll waits for a thread, no subtask of a higher index
\* has a thread
JoinAllOrder ==
  (main.pc = "join" /\ main.j >= 0 /\ main.x = {} /\ csr.pSorter = 1
     /\ Same(RunMain(H), H))
     => \A i \in RunMain(H).jn : \A k \in Tasks : k > i => task[k].pThread = 0

\* No two threads are about to join the same thread
ExclusiveJoins ==
  \A w \in Tasks :
     WorkerJoins(w) # {}
       => /\ WorkerJoins(w) \cap MainJoins = {}
          /\ \A v \in Tasks \ {w} : WorkerJoins(w) \cap WorkerJoins(v) = {}

\* C29: vdbeSorterJoinAll joins the threads from subtask N-1 downwards, and
\* at no time do two threads call sqlite3ThreadJoin() on the same thread
C29_JoinOrder == JoinAllOrder /\ ExclusiveJoins

\* Reset or Close waits in vdbeSorterJoinAll for the merge thread of subtask
\* N-1, which is about to join the thread of another subtask
C29_Witness ==
  /\ main.pc = "join" /\ main.op \in {"Reset", "Close"} /\ main.x = {}
  /\ main.j = sorter.nTask - 1
  /\ WorkerJoins(sorter.nTask - 1) # {}

\* vdbeSorterJoinAll has joined the thread of subtask 1 and waits for the one
\* of subtask 0
C29_LowerWitness ==
  /\ main.pc = "join" /\ main.x = {} /\ main.j = 0
  /\ sorter.nTask = 3 /\ obs.pos > 2
  /\ task[0].pThread = 1 /\ task[1].nPMA > 0

\* ---- C30: the calls that wait for threads return ----

\* sqlite3VdbeSorterNext would wait in sqlite3ThreadJoin()
NextWaits == Idle /\ obs.phase = "read" /\ sqlite3VdbeSorterNext(H).blk

\* No thread calls sqlite3ThreadJoin() on itself
NoSelfJoin == \A w \in Tasks : w \notin WorkerJoins(w)

\* C30: with fair scheduling a Rewind, Reset or Close that waits for a thread
\* returns (or stops at a failed assert), a Next that would have to wait for
\* the merge thread does not have to for ever, and no thread joins itself
C30_CallsReturn ==
  /\ (main.pc # "idle") ~> (main.pc = "idle" \/ main.x # {})
  /\ NextWaits ~> ~NextWaits
  /\ []NoSelfJoin

\* A Rewind that had to wait for threads has returned and the merge thread of
\* subtask N-1 is about to join the populate thread of another subtask
C30_Witness ==
  /\ Idle /\ obs.op = "Rewind" /\ obs.waited /\ obs.rc = OK
  /\ WorkerJoins(sorter.nTask - 1) # {}
  /\ \E i \in WorkerJoins(sorter.nTask - 1) : task[i].thr.kind = "populate"

\* Next has to wait for the merge thread
C30_NextWitness == NextWaits /\ obs.op = "Next"

\* ---- C31: one way of linking the records per sorter ----

\* sqlite3VdbeSorterInit gave the sorter bulk memory
BulkAtInit == SorterInit(cfg).list.aMemory # 0

\* C31: from Init to Close the list of the sorter is linked through bulk
\* memory always (list.aMemory non-null) or through separate allocations
\* always (list.aMemory null), whatever Writes, flushes, failed allocations
\* and Resets there are
C31_OneRegime == csr.pSorter = 1 => ((sorter.list.aMemory # 0) = BulkAtInit)

\* A sorter that was given bulk memory holds a record that was allocated
\* separately, while a subtask holds the bulk memory and the unflushed list
C31_MixedWitness ==
  /\ csr.pSorter = 1 /\ BulkAtInit /\ main.x = {}
  /\ sorter.list.aMemory = 0 /\ sorter.list.pList # <<>>
  /\ \E i \in Tasks : task[i].list.aMemory # 0 /\ task[i].list.pList # <<>>
                        /\ task[i].pThread = 0

\* ---- C32: a PMA read back ----

\* The file from the first byte of PMA k on
FromPma(k) == SubSeq(pma.f, pma.at[k] + 1, Len(pma.f))

\* Where PMA k ends
PmaEnd(k) == IF k < Len(pma.at) THEN pma.at[k + 1] ELSE pma.iEof

\* C32: the reader returns the records of the PMA as they were written, one
\* per call and in their order, and then EOF, and the varint at the start of
\* a PMA is the number of bytes of the records and of their length varints
\* that follow it
C32_RoundTrip ==
  /\ pma.x = {}
  /\ pma.pc \in {"read", "eof"} =>
        /\ Len(pma.out) <= Len(pma.wrote[pma.k])
        /\ pma.out = SubSeq(pma.wrote[pma.k], 1, Len(pma.out))
        /\ (pma.pc = "read") = (pma.r.pFile # 0)
  /\ pma.pc = "eof" => pma.out = pma.wrote[pma.k]
  /\ \A k \in 1..Len(pma.at) :
        /\ sqlite3GetVarint(FromPma(k), 1).v = SzPMA(pma.wrote[k])
        /\ pma.at[k] + sqlite3GetVarint(FromPma(k), 1).n + SzPMA(pma.wrote[k]) = PmaEnd(k)

\* The PMA does not start at the start of a page, and a record of more
\* than a page has been read back from the buffer
C32_Witness ==
  /\ pma.pc = "eof" /\ ~pma.bMap
  /\ pma.at[pma.k] % pma.pgsz # 0
  /\ Len(pma.out) = MaxPmaRecs
  /\ \E i \in 1..Len(pma.out) : Len(pma.out[i]) > pma.pgsz

\* The first of two PMAs has been read back from the mapped file
C32_MapWitness ==
  /\ pma.pc = "eof" /\ pma.bMap /\ pma.k = 1 /\ Len(pma.at) = 2
  /\ Len(pma.out) = MaxPmaRecs

\* ---- C33: the merge tree after an advance ----

\* The readers below node i of a tree of N readers
RECURSIVE Leaves(_, _)
Leaves(N, i) == IF i >= N THEN {i - N} ELSE Leaves(N, 2 * i) \cup Leaves(N, 2 * i + 1)

\* aTree of merge engine e after vdbeSorterDoCompare on every node, from
\* the last one to the first
Recomputed(e) == CompareAll(H, 0, e, eng[e].nTree - 1).e[e].aTree

\* every reader below node i is at EOF
AllEof(e, i) == Leaves(eng[e].nTree, i) \cap Live(e) = {}

SameKey(e, a, b) == sqlite3VdbeRecordCompare(eng[e].aIter[a].aKey, eng[e].aIter[b].aKey) = 0

\* aTree is what the full recomputation gives, but for the nodes with
\* nothing but EOF below them
TreeIsRecomputed(e) ==
  \A i \in 1..(eng[e].nTree - 1) : AllEof(e, i) \/ eng[e].aTree[i] = Recomputed(e)[i]

\* of two readers with equal keys the one with the higher index is at no
\* node above both, and a reader with their key that is there has an index
\* not above the lower one
TieToLower(e) ==
  \A i \in 1..(eng[e].nTree - 1) :
    \A a, b \in Leaves(eng[e].nTree, i) \cap Live(e) :
      (a < b /\ SameKey(e, a, b)) =>
         /\ eng[e].aTree[i] # b
         /\ eng[e].aTree[i] \in Live(e)
         /\ SameKey(e, eng[e].aTree[i], a) => eng[e].aTree[i] <= a

EofNeverWins(e) ==
  \A i \in 1..(eng[e].nTree - 1) : AllEof(e, i) \/ eng[e].aTree[i] \in Live(e)

\* C33: once the merge tree is initialised, and after every advance by
\* vdbeSorterNext, a tie between two readers goes to the lower index at
\* every node above both, no reader at EOF is at a node that has a reader
\* not at EOF below it, and aTree equals its recomputation by
\* vdbeSorterDoCompare, but for the nodes with nothing but EOF below them
C33_TreeAgrees ==
  (Healthy /\ Reading) =>
    \A e \in DOMAIN eng : TieToLower(e) /\ EofNeverWins(e) /\ TreeIsRecomputed(e)

\* After an advance two readers of an engine built for more than two have
\* equal keys and a third one is at EOF
C33_Witness ==
  /\ Healthy /\ Reading /\ obs.op = "Next"
  /\ \E e \in DOMAIN eng :
       /\ eng[e].nTree >= 4
       /\ \E a, b \in Live(e) : a < b /\ SameKey(e, a, b)
       \* one reader per PMA, and one of them has reached EOF
       /\ sorter.bUseThreads = 0 /\ e = sorter.pMerger
       /\ task[0].nPMA >= 3 /\ task[0].nPMA <= eng[e].nTree
       /\ Cardinality(Live(e)) < task[0].nPMA

\* The exception is needed: a node with only EOF below it differs from its
\* recomputation
C33_EofNodeWitness ==
  /\ Healthy /\ Reading
  /\ \E e \in DOMAIN eng : \E i \in 1..(eng[e].nTree - 1) :
       AllEof(e, i) /\ eng[e].aTree[i] # Recomputed(e)[i]

----------------------------------------------------------------------------
(* The shape of the merge tree *)

RECURSIVE Pow16(_)
Pow16(d) == IF d = 0 THEN 1 ELSE SORTER_MAX_MERGE_COUNT * Pow16(d - 1)

\* ceil(log16 n): the least d with 16^d >= n
RECURSIVE CeilLog16From(_, _)
CeilLog16From(d, n) == IF Pow16(d) >= n THEN d ELSE CeilLog16From(d + 1, n)
CeilLog16(n) == CeilLog16From(0, n)

\* The readers of merge engine e that read from an incremental merger
IncrReaders(h, e) == {i \in 0..(h.e[e].nTree - 1) : h.e[e].aIter[i].pIncr # 0}

\* The levels, counted from lv at engine e, of the merge engines at and below
\* e that read level-0 PMAs: vdbeMergeEngineLevel0 made them, and incremental
\* mergers are attached to the readers of the others only
RECURSIVE LeafLevels(_, _, _)
LeafLevels(h, e, lv) ==
  IF IncrReaders(h, e) = {} THEN {lv}
  ELSE UNION {LeafLevels(h, h.i[h.e[e].aIter[i].pIncr].pMerger, lv + 1) : i \in IncrReaders(h, e)}

\* The merge engines at and below e
RECURSIVE EnginesBelow(_, _)
EnginesBelow(h, e) ==
  {e} \cup UNION {EnginesBelow(h, h.i[h.e[e].aIter[i].pIncr].pMerger) : i \in IncrReaders(h, e)}

\* The single-threaded sorter has spilled, and Rewind() can be called
CanBuild ==
  /\ Idle /\ Healthy /\ obs.phase = "write" /\ obs.failed = OK
  /\ sorter.bUseThreads = 0 /\ sorter.bUsePMA = 1 /\ sorter.list.pList # <<>>

\* The tree Rewind() builds: the last PMA flushed, then vdbeSorterMergeTreeBuild
BuiltTree == vdbeSorterMergeTreeBuild(vdbeSorterFlushPMA(H, {}).h)

TreeShape(b, n) ==
  /\ b.rc = OK /\ b.h.x = {}
  /\ LeafLevels(b.h, b.pMain, 1) = {CeilLog16(n)}
  /\ vdbeSorterTreeDepth(n) = CeilLog16(n) - 1
  /\ \A e \in EnginesBelow(b.h, b.pMain) : b.h.e[e].nTree <= SORTER_MAX_MERGE_COUNT
  /\ \A k \in {SORTER_MAX_MERGE_COUNT, SORTER_MAX_MERGE_COUNT * SORTER_MAX_MERGE_COUNT} :
        vdbeSorterTreeDepth(n * k) = CeilLog16(n * k) - 1

\* C34: for a subtask with n >= 2 level-0 PMAs, the engines that read the
\* level-0 PMAs are all at level ceil(log16 n) of the merge tree that Rewind()
\* builds, the root being level 1; vdbeSorterTreeDepth(n) is one less; and no
\* merge engine has more than SORTER_MAX_MERGE_COUNT readers
C34_TreeShape == CanBuild => TreeShape(BuiltTree, task[0].nPMA + 1)

\* Rewind() has built and initialised a tree of three levels over more than
\* 256 PMAs
C34_Witness ==
  /\ obs.op = "Rewind" /\ obs.rc = OK /\ Healthy /\ sorter.pMerger # 0
  /\ task[0].nPMA > SORTER_MAX_MERGE_COUNT * SORTER_MAX_MERGE_COUNT
  /\ 3 \in LeafLevels(H, sorter.pMerger, 1)
  /\ Cardinality(IncrReaders(H, sorter.pMerger)) = 2

----------------------------------------------------------------------------
(* Incremental mergers *)

\* The records laid out from offset off up to eof in the file content c, as a
\* PmaReader walks them; NoKey stands for bytes that are not a record
RECURSIVE ItemsFrom(_, _, _)
ItemsFrom(c, off, eof) ==
  IF off >= eof THEN <<>>
  ELSE IF off \notin DOMAIN c \/ c[off].t # "v" \/ c[off].v = 0 THEN <<NoKey>>
  ELSE Bind([b \in {off + c[off].len} |->
         IF b \notin DOMAIN c \/ c[b].t # "b" \/ c[b].len # c[off].v THEN <<NoKey>>
         ELSE <<c[b].r>> \o ItemsFrom(c, b + c[b].len, eof)])

FileItems(fd, off, eof) ==
  IF off >= eof THEN <<>>
  ELSE IF fd \in DOMAIN disk THEN ItemsFrom(disk[fd], off, eof) ELSE <<NoKey>>

\* How far aFile[1] of a multi-threaded merger is filled with records that
\* wait for the next vdbeIncrSwap: the thread of the subtask has written them
AheadEnd(iid) ==
  Bind([I \in {incr[iid]} |->
  Bind([T \in {task[I.pTask]} |->
    IF I.bUseThread = 1 /\ T.pThread = 1 /\ T.thr.kind = "populate" /\ T.thr.arg = iid
    THEN IF T.bDone = 1 THEN I.aFile[1].iEof
         ELSE IF T.thr.run = 1 THEN T.thr.off ELSE I.iStartOff
    ELSE I.iStartOff])])

\* The records a reader is still to deliver, the one it stands on first: the
\* rest of its PMA or of the merger's aFile[0], what waits in aFile[1], and
\* what the merge engine below is to deliver
RECURSIVE PendingReader(_)
RECURSIVE PendingEngine(_, _)
PendingReader(r) ==
  IF r.pFile = 0 THEN <<>>
  ELSE <<r.aKey>> \o FileItems(r.pFile, r.iReadOff, r.iEof)
       \o (IF r.pIncr = 0 THEN <<>>
           ELSE FileItems(incr[r.pIncr].aFile[1].pFd, incr[r.pIncr].iStartOff, AheadEnd(r.pIncr))
                \o PendingEngine(incr[r.pIncr].pMerger, 0))
PendingEngine(e, n) ==
  IF n >= eng[e].nTree THEN <<>>
  ELSE PendingReader(eng[e].aIter[n]) \o PendingEngine(e, n + 1)

Pending ==
  IF sorter.bUseThreads = 1 THEN PendingReader(sorter.rdr)
  ELSE PendingEngine(sorter.pMerger, 0)

Recs(s) == {s[n] : n \in 1..Len(s)}

\* Nothing dropped, duplicated or overwritten on the way up the tree: the
\* records returned and the records still to be delivered are the records
\* written, each once (the current row is counted on both sides)
Conserved ==
  (Healthy /\ Idle /\ sorter.bUsePMA = 1) =>
     /\ obs.phase = "read" =>
          /\ Len(Pending) + Len(obs.out) = obs.pos + 1
          /\ Recs(Pending) \cup Recs(obs.out) = Recs(Written)
     /\ obs.phase = "eof" => (eng = EmptyMap \/ Pending = <<>>)

\* The region of a merger in its files
InRegion(I, off, len) == I.iStartOff <= off /\ off + len <= I.iStartOff + I.mxSz

\* The mergers whose files have been set up by vdbePmaReaderIncrInit
Ready(I) == I.aFile[1].pFd # 0

\* The regions of the single-threaded mergers of one subtask are disjoint,
\* and every merger has room for the next record of the engine below it
Regions ==
  Healthy =>
    /\ \A i, j \in DOMAIN incr :
         (i # j /\ Ready(incr[i]) /\ Ready(incr[j])
              /\ incr[i].aFile[1].pFd = incr[j].aFile[1].pFd) =>
           ~Overlaps(incr[i].iStartOff, incr[i].mxSz, incr[j].iStartOff, incr[j].mxSz)
    /\ \A i \in DOMAIN incr :
         /\ incr[i].bUseThread = 0 => incr[i].aFile[0].pFd \in {0, incr[i].aFile[1].pFd}
         /\ \A k \in {0, 1} : Ready(incr[i]) /\ incr[i].aFile[k].iEof # 0 =>
                 InRegion(incr[i], incr[i].aFile[k].iEof, 0)
         /\ \A n \in 0..(eng[incr[i].pMerger].nTree - 1) :
               eng[incr[i].pMerger].aIter[n].pFile # 0 =>
                 eng[incr[i].pMerger].aIter[n].nKey
                    + sqlite3VarintLen(eng[incr[i].pMerger].aIter[n].nKey) + 9 <= incr[i].mxSz

\* The files of the mergers m
IncrFiles(m) == {m[i].aFile[k].pFd : i \in DOMAIN m, k \in {0, 1}} \ {0}

\* The offsets of file fd at which the step has written
WrittenAt(fd) ==
  IF fd \notin DOMAIN disk' THEN {}
  ELSE {o \in DOMAIN disk'[fd] :
          fd \notin DOMAIN disk \/ o \notin DOMAIN disk[fd] \/ disk[fd][o] # disk'[fd][o]}

\* What a step writes to the file of a merger lies inside the region of a
\* merger on that file
WritesInside ==
  \A fd \in IncrFiles(incr) \cup IncrFiles(incr') : \A o \in WrittenAt(fd) :
     \E m \in {incr, incr'} : \E i \in DOMAIN m :
         /\ fd \in {m[i].aFile[0].pFd, m[i].aFile[1].pFd}
         /\ InRegion(m[i], o, disk'[fd][o].len)

\* C35: an incremental merger delivers the records of the merge engine below
\* it, each once: every refill writes inside the merger's own region, the
\* regions of the single-threaded mergers of a file2 are disjoint, mxSz has
\* room for the largest record and 9 bytes more so that a refill transfers a
\* record whenever the engine below has one, and no record is left behind
\* when the reader is cleared at bEof
C35_Delivers == [][(Healthy' => WritesInside) /\ Regions' /\ Conserved']_vars

\* A single-threaded merger has been refilled by sqlite3VdbeSorterNext: two
\* mergers share file2, one of them with its second fill in its region
C35_Witness ==
  /\ Healthy /\ obs.op = "Next" /\ obs.phase = "read" /\ sorter.bUseThreads = 0
  /\ \E i, j \in DOMAIN incr :
        /\ i # j /\ incr[i].aFile[1].pFd = incr[j].aFile[1].pFd /\ Ready(incr[i])
        /\ incr[j].iStartOff > 0
        /\ \E n \in 1..Len(obs.out) : \E k \in 1..(n - 1) :
              /\ obs.out[n] \in Recs(FileItems(incr[j].aFile[0].pFd, incr[j].iStartOff,
                                               incr[j].aFile[0].iEof))
              /\ obs.out[k].tag > SORTER_MAX_MERGE_COUNT
  /\ Len(Pending) > 1

\* A multi-threaded merger with records waiting in aFile[1] while the reader
\* reads aFile[0]
C35_ThreadWitness ==
  /\ Healthy /\ Idle /\ obs.phase = "read" /\ sorter.bUseThreads = 1
  /\ \E i \in DOMAIN incr : AheadEnd(i) > incr[i].iStartOff

----------------------------------------------------------------------------
(* The single-threaded sorter as the reference of the multi-threaded one *)

\* The bundle of a sorter that sqlite3VdbeSorterInit has just made
BundleInit(c) ==
  [s |-> SorterInit(c), t |-> [i \in 0..c.nWorker |-> TaskZero],
   e |-> EmptyMap, i |-> EmptyMap, d |-> EmptyMap,
   a |-> IF SorterInit(c).list.aMemory # 0 THEN Put(EmptyMap, 1, c.pgsz) ELSE EmptyMap,
   x |-> {}, flt |-> "none", nf |-> 0, blk |-> FALSE, jn |-> {},
   pc |-> "idle", op |-> "none", j |-> 0, k |-> 0, rc |-> OK, off |-> 0, eof |-> FALSE]

\* sqlite3VdbeSorterWrite of the records w[k..], one call after the other
RECURSIVE WriteAll(_, _, _)
WriteAll(h, w, k) ==
  IF k > Len(w) \/ h.x # {} THEN h
  ELSE WriteAll(sqlite3VdbeSorterWrite(h, w[k], FALSE, {}).h, w, k + 1)

\* sqlite3VdbeSorterNext until it reports eof; out are the keys read so far
RECURSIVE ReadAll(_, _)
ReadAll(h, out) ==
  IF h.rc # OK \/ h.eof \/ h.x # {} THEN out
  ELSE ReadAll(sqlite3VdbeSorterNext(h),
               Append(out, vdbeSorterRowkey(h.s, h.e)))

\* What a sorter of configuration c returns for the writes w when no thread
\* is used: c with nWorker = 0
SingleThreadedRun(c, w) ==
  ReadAll(sqlite3VdbeSorterRewind(
            [WriteAll(BundleInit([c EXCEPT !.nWorker = 0]), w, 1) EXCEPT !.op = "Rewind"], {}),
          <<>>)

KeysOf(l) == [n \in 1..Len(l) |-> l[n].key]

\* C36: the keys a multi-threaded sorter has returned are the keys that the
\* single-threaded sorter returns for the same writes, in the same order, and
\* at eof it has returned as many
C36_SameKeys ==
  (Healthy /\ Idle /\ Reading /\ sorter.bUseThreads = 1) =>
     \E ref \in {SingleThreadedRun(cfg, Written)} :
        /\ Len(obs.out) <= Len(ref)
        /\ KeysOf(obs.out) = SubSeq(KeysOf(ref), 1, Len(obs.out))
        /\ obs.phase = "eof" => Len(obs.out) = Len(ref)

\* A multi-threaded sorter has returned every record from its PMAs, records
\* of equal keys in another order than the single-threaded sorter does
C36_Witness ==
  /\ Healthy /\ Idle /\ obs.phase = "eof" /\ sorter.bUseThreads = 1 /\ sorter.bUsePMA = 1
  /\ Len(obs.out) = MaxLen
  /\ obs.out # SingleThreadedRun(cfg, Written)
  /\ obs.out[1].key # obs.out[MaxLen].key

\* The same, with the records in the order of the single-threaded sorter
C36_SameOrderWitness ==
  /\ Healthy /\ Idle /\ obs.phase = "eof" /\ sorter.bUseThreads = 1 /\ sorter.bUsePMA = 1
  /\ Len(obs.out) = MaxLen
  /\ obs.out = SingleThreadedRun(cfg, Written)
  /\ obs.out[1].key # obs.out[MaxLen].key

----------------------------------------------------------------------------
(* Branches under three-valued logic *)

\* The tree at p is AND, OR and NOT over conditions that Eval knows, with
\* one of the three at the root
RECURSIVE Connectives(_, _)
Connectives(h, p) ==
  IF p = 0 \/ h.hp[p].op \notin {"TK_AND", "TK_OR", "TK_NOT"} THEN 0
  ELSE 1 + Connectives(h, h.hp[p].pLeft) + Connectives(h, h.hp[p].pRight)

\* The branch emitter has coded T, and the code has run on a row to its end
BranchRan == px.gen \in {"IfTrue", "IfFalse"} /\ px.vm.st = "halt" /\ Evaluable(px.T)

\* 1 when the run has ended at dest, 0 when it has fallen through
Jumped == px.vm.p1

\* when the caller wants the jump: on TRUE for sqlite3ExprIfTrue, on FALSE for
\* sqlite3ExprIfFalse, and on NULL if jumpIfNull is set
JumpWanted(t) ==
  \/ t = 2 /\ px.jin = 1
  \/ t = (IF px.gen = "IfTrue" THEN 1 ELSE 0)

\* C37: the code of sqlite3ExprIfTrue(e, dest, jumpIfNull) ends at dest iff
\* e is TRUE, or NULL with jumpIfNull set; the code of sqlite3ExprIfFalse
\* ends at dest iff e is FALSE, or NULL with jumpIfNull set; otherwise it
\* falls through to the instruction after the code of e.  e is any tree of
\* AND, OR and NOT over columns, NULL, comparisons, IS NULL and BETWEEN
C37_JumpIff ==
  BranchRan =>
    /\ Jumped = (IF JumpWanted(Truth(Eval(px.h, px.T, px.vm.env))) THEN 1 ELSE 0)
    /\ px.vm.pc = Len(Program) - (IF Jumped = 1 THEN 1 ELSE 2)
    /\ px.vm.ran \ {px.vm.pc} \subseteq 0..(Len(Program) - 3)

\* NULL AND b with jumpIfNull set, coded by sqlite3ExprIfTrue below a NOT or
\* an OR, has jumped on a row where the whole condition is NULL
C37_Witness ==
  /\ BranchRan
  /\ Connectives(px.h, px.T) >= 2
  /\ px.jin = 1
  /\ Truth(Eval(px.h, px.T, px.vm.env)) = 2
  /\ Jumped = 1

\* a NULL operand and no jump: jumpIfNull is clear
C37_FallWitness ==
  /\ BranchRan
  /\ Connectives(px.h, px.T) >= 2
  /\ px.jin = 0
  /\ Truth(Eval(px.h, px.T, px.vm.env)) = 2
  /\ Jumped = 0
  /\ px.vm.ran # {}

----------------------------------------------------------------------------
(* The depth of the stack *)

\* C38: the code of sqlite3ExprCode ends with the stack one value deeper than
\* at its start, the code of sqlite3ExprIfTrue and sqlite3ExprIfFalse with the
\* stack as deep as at its start, at dest as at the fall-through; on the way
\* the code never takes a value that was there before it, and never runs past
\* its end
C38_StackDepth ==
  /\ px.vm.st = "run" =>
       /\ px.vm.pc < Len(Program)
       /\ Len(px.vm.stack) >= px.vm.base
  /\ px.vm.st = "halt" =>
       /\ Len(px.vm.stack) = px.vm.base + (IF px.gen = "Code" THEN 1 ELSE 0)
       /\ SubSeq(px.vm.stack, 1, px.vm.base) = Under

\* CASE with a base expression, coded by sqlite3ExprCode above a value that
\* was on the stack: no WHEN has matched and the ELSE has been taken
C38_Witness ==
  /\ px.gen = "Code" /\ px.vm.st = "halt" /\ px.vm.base = 1
  /\ px.h.hp[px.T].op = "TK_CASE" /\ px.h.hp[px.T].pLeft # 0
  /\ \E j \in px.vm.ran : Program[j + 1].opcode = "OP_Pop" /\ j + 2 = px.vm.pc
  /\ \A j \in px.vm.ran : Program[j + 1].opcode # "OP_Goto"

\* the same CASE on a row where a WHEN has matched
C38_MatchWitness ==
  /\ px.gen = "Code" /\ px.vm.st = "halt" /\ px.vm.base = 1
  /\ px.h.hp[px.T].op = "TK_CASE" /\ px.h.hp[px.T].pLeft # 0
  /\ \E j \in px.vm.ran : Program[j + 1].opcode = "OP_Goto"

\* IN with a NULL left operand, coded by sqlite3ExprCode and by the branch
\* emitters
C38_InNullWitness ==
  /\ px.gen = "Code" /\ px.vm.st = "halt"
  /\ px.h.hp[px.T].op = "TK_IN" /\ px.vm.env.a = VNull
  /\ px.vm.stack = Append(Under, VNull)
C38_BranchInWitness ==
  /\ px.gen \in {"IfTrue", "IfFalse"} /\ px.vm.st = "halt" /\ px.vm.base = 1
  /\ px.h.hp[px.T].op = "TK_IN" /\ px.vm.env.a = VNull
  /\ px.vm.p1 = px.jin

\* BETWEEN coded by a branch emitter, left at the first comparison
C38_BetweenWitness ==
  /\ px.gen \in {"IfTrue", "IfFalse"} /\ px.vm.st = "halt" /\ px.vm.base = 1
  /\ px.h.hp[px.T].op = "TK_BETWEEN"
  /\ \E j \in DOMAIN Program :
        /\ Program[j].opcode \in {"OP_Le", "OP_Gt"} /\ Program[j].by = px.T
        /\ j - 1 \notin px.vm.ran
----------------------------------------------------------------------------
(* Labels and jump addresses of the emitted code *)

\* The nodes of the tree at p whose case of the emitter allocates a label,
\* when the tree is coded in the given form: TK_CASE in sqlite3ExprCode,
\* TK_AND in sqlite3ExprIfTrue and TK_OR in sqlite3ExprIfFalse
RECURSIVE Makers(_, _, _)
Makers(h, p, form) ==
  IF p = 0 THEN {}
  ELSE IF form = "IfTrue" /\ h.hp[p].op = "TK_AND"
  THEN {p} \cup Makers(h, h.hp[p].pLeft, "IfFalse") \cup Makers(h, h.hp[p].pRight, "IfTrue")
  ELSE IF form = "IfFalse" /\ h.hp[p].op = "TK_OR"
  THEN {p} \cup Makers(h, h.hp[p].pLeft, "IfTrue") \cup Makers(h, h.hp[p].pRight, "IfFalse")
  ELSE IF form # "Code" /\ h.hp[p].op \in {"TK_AND", "TK_OR"}
  THEN Makers(h, h.hp[p].pLeft, form) \cup Makers(h, h.hp[p].pRight, form)
  ELSE IF form # "Code" /\ h.hp[p].op = "TK_NOT"
  THEN Makers(h, h.hp[p].pLeft, IF form = "IfTrue" THEN "IfFalse" ELSE "IfTrue")
  ELSE {n \in CodedNodes(h, p) : h.hp[n].op = "TK_CASE"}

\* the code of the tree at node n: first address, last address
CodeOfTree(n) == CodeOfNodes(ExprNodes(px.h, n))
FirstOf(S) == CHOOSE a \in S : \A b \in S : a <= b
LastOf(S) == CHOOSE a \in S : \A b \in S : b <= a

\* the address that follows the code of the emitter that has coded node n:
\* a CASE that a branch emitter codes by its default case is followed by the
\* OP_If or OP_IfNot of the branch
EndOf(n) ==
  IF /\ px.h.hp[n].op = "TK_CASE"
     /\ Program[LastOf(CodeOfTree(n)) + 1].by = n
     /\ Program[LastOf(CodeOfTree(n)) + 1].opcode \in {"OP_If", "OP_IfNot"}
  THEN LastOf(CodeOfTree(n))
  ELSE LastOf(CodeOfTree(n)) + 1

\* the labels of the emitters: the caller of a branch emitter has made the
\* first label of the table for dest
EmitterLabels ==
  {i \in DOMAIN px.P.pVdbe.aLabel : px.gen = "Code" \/ i > 1}

\* the instructions that carry an address in P2
Jumps ==
  {"OP_Eq", "OP_Ne", "OP_Lt", "OP_Le", "OP_Gt", "OP_Ge", "OP_If", "OP_IfNot",
   "OP_IsNull", "OP_NotNull", "OP_Goto", "OP_Found", "OP_NotFound", "OP_SetFound",
   "OP_SetNotFound"}
JumpsOf(n) ==
  {j \in DOMAIN Program :
     Program[j].by = n /\ Program[j].opcode \in Jumps /\ Program[j].p2 # 0}

\* the address dest of the caller of a branch emitter
DestAddr == IF px.gen = "Code" THEN {} ELSE {px.P.pVdbe.aLabel[1]}

\* the nodes whose code has jumps that are patched by address
Patched == {"TK_CASE", "TK_BETWEEN", "TK_IN", "TK_ISNULL", "TK_NOTNULL"}

\* C39: when an emitter has returned, every label it or an emitter under it
\* has allocated was resolved exactly once, to the address that follows the
\* code of the AND, OR or CASE that allocated it, and no instruction is left
\* with an unresolved label; every jump of a CASE, BETWEEN, IN, ISNULL or
\* NOTNULL goes to an address inside the code of that expression or to the
\* one that follows it, or, in a branch emitter, to a label handed in
C39_LabelsAndJumps ==
  px.gen # "none" =>
    /\ Cardinality(EmitterLabels) = Cardinality(Makers(px.h, px.T, px.gen))
    /\ \A i \in DOMAIN px.P.pVdbe.aLabel :
         /\ px.P.pVdbe.nResolve[i] = 1
         /\ px.P.pVdbe.aLabel[i] >= 0
    /\ \A i \in EmitterLabels :
         /\ px.P.pVdbe.aLabel[i] <= Len(Program) - (IF px.gen = "Code" THEN 1 ELSE 2)
         /\ \E n \in Makers(px.h, px.T, px.gen) :
              /\ CodeOfTree(n) # {}
              /\ px.P.pVdbe.aLabel[i] = EndOf(n)
    /\ \A j \in DOMAIN Program :
         Program[j].opcode \in Jumps => Program[j].p2 >= 0
    /\ \A n \in CodedNodes(px.h, px.T) :
         px.h.hp[n].op \in Patched =>
           \A j \in JumpsOf(n) :
             \/ /\ Program[j].p2 >= FirstOf(CodeOfTree(n))
                /\ Program[j].p2 <= LastOf(CodeOfTree(n)) + 1
             \/ /\ px.gen # "Code"
                /\ Program[j].p2 \in
                     DestAddr \cup {px.P.pVdbe.aLabel[i] : i \in EmitterLabels}

\* a CASE with a base expression and two WHEN branches is coded: one label,
\* resolved once at the end, and each OP_Ne is patched to the next WHEN
C39_Witness ==
  /\ px.gen = "Code"
  /\ px.h.hp[px.T].op = "TK_CASE" /\ px.h.hp[px.T].pLeft # 0
  /\ Len(px.P.pVdbe.aLabel) = 1
  /\ px.P.pVdbe.nResolve = <<1>>
  /\ px.P.pVdbe.aLabel[1] = Len(Program) - 1
  /\ Cardinality({j \in JumpsOf(px.T) : Program[j].opcode = "OP_Ne"}) = 2
  /\ Cardinality({j \in JumpsOf(px.T) :
                    Program[j].opcode = "OP_Goto"
                    /\ Program[j].p2 = px.P.pVdbe.aLabel[1]}) = 2

\* sqlite3ExprIfTrue codes (x AND y) AND z: two labels besides dest, both
\* resolved once, at the same address
C39_NestedWitness ==
  /\ px.gen = "IfTrue"
  /\ Len(px.P.pVdbe.aLabel) = 3
  /\ px.P.pVdbe.nResolve = <<1, 1, 1>>
  /\ px.P.pVdbe.aLabel[2] = px.P.pVdbe.aLabel[3]
  /\ px.P.pVdbe.aLabel[1] = px.P.pVdbe.aLabel[2] + 1

\* sqlite3ExprIfFalse codes an IN with jumpIfNull clear: the OP_Goto for a
\* NULL left operand goes to the address that follows the code of the IN
C39_InWitness ==
  /\ px.gen = "IfFalse" /\ px.jin = 0
  /\ px.h.hp[px.T].op = "TK_IN"
  /\ \E j \in JumpsOf(px.T) :
       /\ Program[j].opcode = "OP_Goto"
       /\ Program[j].p2 = LastOf(CodeOfTree(px.T)) + 1
       /\ Program[j].p2 # px.P.pVdbe.aLabel[1]

----------------------------------------------------------------------------
(* The alarm callback of the allocator *)

\* the calls of thread t that are inside the alarm callback
InCallback(t) == {k \in DOMAIN mem.thr[t] : mem.thr[t][k].pc = "xCallback"}

\* the callback of thread t is running its own code: no allocation of the
\* callback is under way
InItsCallback(t) == mem.thr[t] # <<>> /\ Top(mem, t).pc = "xCallback"

\* thread t, inside its callback, is not holding the mutex, and a call of
\* sqlite3Malloc from the callback finds the mutex not held by t
MutexDropped(t) ==
  /\ InItsCallback(t) => mem.mem0.mutex # t
  /\ \A k \in InCallback(t) :
       (k < Len(mem.thr[t]) /\ mem.thr[t][k + 1].pc = "enter") => mem.mem0.mutex # t

\* no alarm is issued to an allocation made from inside the callback
NoNestedAlarm(t) == Cardinality(InCallback(t)) <= 1

\* the allocation that the callback has interrupted goes on with the mutex
\* held and the callback and argument that were there before
Restored(t) ==
  \A k \in DOMAIN mem.thr[t] :
    (mem.thr[t][k].pc \in {"xMalloc", "retry"} /\ mem.thr[t][k].then # "") =>
       /\ mem.mem0.mutex = t
       /\ mem.mem0.alarmCallback = mem.thr[t][k].xCallback
       /\ mem.mem0.alarmArg = mem.thr[t][k].pArg

\* C40: while the alarm callback runs, the thread that has called it does not
\* hold mem0.mutex and mem0.alarmCallback is 0, so an allocation from inside
\* the callback does not deadlock and gets no alarm of its own; the mutex is
\* held again, and the callback and its argument are back, when the
\* allocation goes on
C40_AlarmReentrant ==
  \A t \in Threads :
    /\ MutexDropped(t)
    /\ InCallback(t) # {} => mem.mem0.alarmCallback = "0"
    /\ NoNestedAlarm(t)
    /\ Restored(t)

\* the part of it that holds whatever the other threads do: the mutex is
\* dropped for the callback and taken again after it, with the callback and
\* argument of before
C40_MutexAndRestore ==
  \A t \in Threads : MutexDropped(t) /\ Restored(t)

\* an alarm callback is called from inside an alarm callback
C40_NestedAlarm == \E t \in Threads : ~NoNestedAlarm(t)

\* sqlite3MemoryAlarm(0, 0, 0) of another thread has taken the alarm away
\* while the callback ran, and the return of the callback has put the
\* callback back, with the threshold 0
C40_LostSetting ==
  /\ mem.op = "return"
  /\ mem.mem0.alarmCallback # "0"
  /\ mem.mem0.alarmThreshold = 0

\* an allocation from inside the callback has gone through while the
\* callback's own thread was inside the callback
C40_Reentered ==
  \E t \in Threads :
    /\ InItsCallback(t)
    /\ mem.op \in {"xMalloc", "retry"}
    /\ mem.used > Top(mem, t).nowUsed

====
